---- MODULE Spec2Model ----
(***************************************************************************)
(* A model of the XMonitor migration scripts:                              *)
(*   scripts/migrate/import_sqlite_jsonl_to_postgres.py  (the importer)    *)
(*   scripts/migrate/validate_counts.py                  (the validator)   *)
(*   scripts/ops/omit_and_purge_handles.py               (the purge tool)  *)
(*                                                                         *)
(* Text is a sequence of lexical chunks: single characters for handles,    *)
(* tiers and modes (so that strip, lstrip and lower act character by       *)
(* character), and whole ISO-8601 components for timestamps.  A decoded    *)
(* JSON value is a tagged record [t, v].                                   *)
(***************************************************************************)
EXTENDS Integers, Sequences, FiniteSets, TLC

VARIABLES
    files,      \* table -> the lines of its JSONL input file
    run,        \* number of the importer run in progress (1-based)
    pc,         \* position of main(): "start", a table name, "derive", "done", "crashed"
    idx,        \* iter_jsonl: number of lines of the current file already consumed
    counters,   \* the Counters object of the per-table importer in progress
    summary,    \* main(): table -> Counters as a record, for the tables finished
    rejectLog,  \* content of the reject-log file, one entry per line
    db,         \* the destination: table name -> (natural key -> row)
    last,       \* what the latest loop iteration did (observation only)
    history,    \* per finished run: its summary and the destination row counts
    probe,      \* harness that applies one pure function to one input
    env,        \* what the importer is started with: input directory, files, DB config
    validator,  \* validate_counts.py: its inputs, its position and its report
    purge       \* omit_and_purge_handles.py: its arguments, its position, the jobs

vars == <<files, run, pc, idx, counters, summary, rejectLog, db, last, history, probe,
          env, validator, purge>>

importerVars == <<files, run, pc, idx, counters, summary, rejectLog, db, last, history, env>>

----------------------------------------------------------------------------
(* Bounds of the model.                                                    *)

\* Total number of lines over the five input files of one run.
MaxLines == 2

\* Number of importer runs over the same input files.
MaxRuns == 2

\* Length of the texts the normalize_handle harness tries.
MaxHandleLen == 3

\* Post lines imported, and runs of the snapshot generator, in the
\* snapshot specification.
MaxPostImports == 3

MaxGeneratorRuns == 3

\* Posts in the source snapshot the validator reads.
MaxPosts == 21

\* Handles in an omit list, and on the purge script's command line.
MaxOmitHandles == 2

\* Rows of the tweets table in a source that is exported and imported.
MaxSourceRows == 2

----------------------------------------------------------------------------
(* Decoded JSON values.                                                    *)

Null == [t |-> "null", v |-> 0]

JStr(s) == [t |-> "str", v |-> s]

JInt(n) == [t |-> "int", v |-> n]

JBool(b) == [t |-> "bool", v |-> b]

\* A JSON array of numbers (used for embedding vectors).
JList(s) == [t |-> "list", v |-> s]

\* A JSON object nested inside a row; the database driver cannot bind it
\* to a %s placeholder, so cur.execute raises.
JDict == [t |-> "dict", v |-> 0]

\* A JSON number that is no integer: n + 0.5 ("half"), or the Infinity and
\* NaN literals json.dumps writes and json.loads reads.
JFloat(kind, n) == [t |-> "float", v |-> [kind |-> kind, whole |-> n]]

Infinity == JFloat("inf", 0)

NaN == JFloat("nan", 0)

IsNull(x) == x.t = "null"

\* value == ""
IsEmptyStr(x) == x.t = "str" /\ x.v = <<>>

\* Python truthiness of a decoded value (the operand of `not` and `or`).
Truthy(x) ==
    CASE x.t = "null" -> FALSE
      [] x.t = "str"  -> x.v # <<>>
      [] x.t = "int"  -> x.v # 0
      [] x.t = "bool" -> x.v
      [] x.t = "list" -> x.v # <<>>
      [] OTHER        -> TRUE

----------------------------------------------------------------------------
(* Text helpers: str.strip, str.lstrip("@"), str.lower.                    *)

IsSpace(c) == c \in {" ", "\t", "\n", "\r"}

UpperAlpha == <<"A","B","C","D","E","F","G","H","I","J","K","L","M",
                "N","O","P","Q","R","S","T","U","V","W","X","Y","Z">>

LowerAlpha == <<"a","b","c","d","e","f","g","h","i","j","k","l","m",
                "n","o","p","q","r","s","t","u","v","w","x","y","z">>

LowerChar(c) ==
    IF \E i \in 1..26 : UpperAlpha[i] = c
    THEN LowerAlpha[CHOOSE i \in 1..26 : UpperAlpha[i] = c]
    ELSE c

Lower(s) == [i \in 1..Len(s) |-> LowerChar(s[i])]

RECURSIVE LStripSpace(_)
LStripSpace(s) ==
    IF s # <<>> /\ IsSpace(Head(s)) THEN LStripSpace(Tail(s)) ELSE s

RECURSIVE RStripSpace(_)
RStripSpace(s) ==
    IF s # <<>> /\ IsSpace(s[Len(s)])
    THEN RStripSpace(SubSeq(s, 1, Len(s) - 1))
    ELSE s

Strip(s) == RStripSpace(LStripSpace(s))

\* str.lstrip("@"): removes every leading "@", not only the first.
RECURSIVE LStripAt(_)
LStripAt(s) ==
    IF s # <<>> /\ Head(s) = "@" THEN LStripAt(Tail(s)) ELSE s

Digits == <<"0","1","2","3","4","5","6","7","8","9">>

RECURSIVE NatStr(_)
NatStr(n) ==
    IF n < 10 THEN <<Digits[n + 1]>>
    ELSE Append(NatStr(n \div 10), Digits[(n % 10) + 1])

IntStr(n) == IF n < 0 THEN <<"-">> \o NatStr(0 - n) ELSE NatStr(n)

\* str(value) for the values a decoded row can hold.
PyStr(x) ==
    CASE x.t = "str"  -> x.v
      [] x.t = "null" -> <<"N","o","n","e">>
      [] x.t = "bool" -> IF x.v THEN <<"T","r","u","e">> ELSE <<"F","a","l","s","e">>
      [] x.t = "int"  -> IntStr(x.v)
      [] x.t = "list" -> <<"[", "]">>
      [] x.t = "float" -> IF x.v.kind = "inf" THEN <<"i","n","f">>
                          ELSE IF x.v.kind = "nan" THEN <<"n","a","n">>
                          ELSE IntStr(x.v.whole) \o <<".", "5">>
      [] OTHER        -> <<"{", "}">>

----------------------------------------------------------------------------
(* Field normalizers.                                                      *)

\* normalize_handle that removes one leading "@" only.
normalize_handle_single_at(value) ==
    IF IsNull(value) THEN Null
    ELSE LET text == Strip(PyStr(value))
         IN IF text = <<>> THEN Null
            ELSE JStr(Lower(IF Head(text) = "@" THEN Tail(text) ELSE text))

\* import_sqlite_jsonl_to_postgres.normalize_handle and the identical
\* validate_counts.normalize_handle: Optional[str].
normalize_handle(value) ==
    IF IsNull(value) THEN Null
    ELSE LET text == Strip(PyStr(value))
         IN IF text = <<>> THEN Null
            ELSE JStr(Lower(LStripAt(text)))

\* omit_and_purge_handles.normalize_handle: str -> str.
omit_normalize_handle(value) == JStr(Lower(LStripAt(Strip(value.v))))

VALID_TIERS == {<<"t","e","a","m","m","a","t","e">>,
                <<"i","n","f","l","u","e","n","c","e","r">>,
                <<"e","c","o","s","y","s","t","e","m">>}

refresh24h == <<"r","e","f","r","e","s","h","2","4","h">>

VALID_RUN_MODES == {<<"p","r","i","o","r","i","t","y">>,
                    <<"d","i","s","c","o","v","e","r","y">>,
                    <<"b","o","t","h">>,
                    refresh24h,
                    <<"m","a","n","u","a","l">>}

\* RUN_MODE_MAP.get(text, text)
RUN_MODE_MAP(text) ==
    IF text \in {<<"r","e","f","r","e","s","h","-","2","4","h">>,
                 <<"r","e","f","r","e","s","h","_","2","4","h">>}
    THEN refresh24h
    ELSE text

normalize_tier(value) ==
    IF IsNull(value) THEN Null
    ELSE LET text == Lower(Strip(PyStr(value)))
         IN IF text \in VALID_TIERS THEN JStr(text) ELSE Null

\* normalize_run_mode without the RUN_MODE_MAP lookup.
normalize_run_mode_unmapped(value) ==
    IF IsNull(value) THEN Null
    ELSE LET text == Lower(Strip(PyStr(value)))
         IN IF text \in VALID_RUN_MODES THEN JStr(text) ELSE Null

normalize_run_mode(value) ==
    IF IsNull(value) THEN Null
    ELSE LET text == RUN_MODE_MAP(Lower(Strip(PyStr(value))))
         IN IF text \in VALID_RUN_MODES THEN JStr(text) ELSE Null

\* get_first that skips aliases whose value is null (a COALESCE).
get_first_non_null(row, keys) ==
    IF \E i \in 1..Len(keys) : keys[i] \in DOMAIN row /\ ~IsNull(row[keys[i]])
    THEN row[keys[CHOOSE i \in 1..Len(keys) :
                    /\ keys[i] \in DOMAIN row /\ ~IsNull(row[keys[i]])
                    /\ \A j \in 1..(i - 1) :
                          keys[j] \notin DOMAIN row \/ IsNull(row[keys[j]])]]
    ELSE Null

\* get_first(row, *keys): the value under the first key present in the row.
get_first(row, keys) ==
    IF \E i \in 1..Len(keys) : keys[i] \in DOMAIN row
    THEN row[keys[CHOOSE i \in 1..Len(keys) :
                    /\ keys[i] \in DOMAIN row
                    /\ \A j \in 1..(i - 1) : keys[j] \notin DOMAIN row]]
    ELSE Null

----------------------------------------------------------------------------
(* Results of operations that can raise.                                   *)

Ok(x) == [ok |-> TRUE, val |-> x, err |-> ""]

Raise(msg) == [ok |-> FALSE, val |-> Null, err |-> msg]

----------------------------------------------------------------------------
(* Timestamps.  An ISO-8601 text is the chunk of its local date and time,  *)
(* optionally followed by the chunk of its offset ("Z" or "+hh:mm").       *)
(* Local date-times and instants are counted in hours from                 *)
(* 2024-01-01T00:00:00.                                                    *)

\* The local date-times datetime.fromisoformat reads, with their value.
IsoLocal ==
    [c \in {"2023-12-31T19:00:00", "2024-01-01T00:00:00", "2024-01-01T03:00:00",
            "2024-01-01T05:00:00", "2024-01-01T08:00:00", "2024-01-01T19:00:00",
            "2024-01-02T00:00:00", "2024-01-02T03:00:00"} |->
        CASE c = "2023-12-31T19:00:00" -> 0 - 5
          [] c = "2024-01-01T00:00:00" -> 0
          [] c = "2024-01-01T03:00:00" -> 3
          [] c = "2024-01-01T05:00:00" -> 5
          [] c = "2024-01-01T08:00:00" -> 8
          [] c = "2024-01-01T19:00:00" -> 19
          [] c = "2024-01-02T00:00:00" -> 24
          [] c = "2024-01-02T03:00:00" -> 27]

\* The UTC offsets datetime.fromisoformat reads, in hours.
IsoOffset ==
    [c \in {"+00:00", "+05:00", "-03:00"} |->
        CASE c = "+00:00" -> 0
          [] c = "+05:00" -> 5
          [] c = "-03:00" -> 0 - 3]

\* A datetime: local wall-clock value and tzinfo (<<>> when naive).
DateTime(local, tz) == [t |-> "datetime", v |-> [local |-> local, tz |-> tz]]

fromisoformat(text) ==
    IF Len(text) = 1 /\ text[1] \in DOMAIN IsoLocal
    THEN Ok(DateTime(IsoLocal[text[1]], <<>>))
    ELSE IF Len(text) = 2 /\ text[1] \in DOMAIN IsoLocal /\ text[2] \in DOMAIN IsoOffset
    THEN Ok(DateTime(IsoLocal[text[1]], <<IsoOffset[text[2]]>>))
    ELSE Raise("Invalid isoformat string")

\* dt.astimezone(timezone.utc) of an aware datetime.
astimezone_utc(dt) == DateTime(dt.v.local - dt.v.tz[1], <<0>>)

\* parse_timestamp without the final astimezone: an aware input keeps its
\* own offset.
parse_timestamp_keeps_offset(value, required) ==
    IF IsNull(value) \/ IsEmptyStr(value)
    THEN IF required THEN Raise("missing required timestamp") ELSE Ok(Null)
    ELSE LET stripped == Strip(PyStr(value))
             text == IF stripped # <<>> /\ stripped[Len(stripped)] = "Z"
                     THEN Append(SubSeq(stripped, 1, Len(stripped) - 1), "+00:00")
                     ELSE stripped
             parsed == fromisoformat(text)
         IN IF ~parsed.ok THEN parsed
            ELSE Ok(IF parsed.val.v.tz = <<>>
                    THEN DateTime(parsed.val.v.local, <<0>>)
                    ELSE parsed.val)

\* parse_timestamp with the required flag ignored: an absent value is None.
parse_timestamp_never_required(value, required) ==
    IF IsNull(value) \/ IsEmptyStr(value)
    THEN Ok(Null)
    ELSE LET stripped == Strip(PyStr(value))
             text == IF stripped # <<>> /\ stripped[Len(stripped)] = "Z"
                     THEN Append(SubSeq(stripped, 1, Len(stripped) - 1), "+00:00")
                     ELSE stripped
             parsed == fromisoformat(text)
         IN IF ~parsed.ok THEN parsed
            ELSE LET dt == IF parsed.val.v.tz = <<>>
                           THEN DateTime(parsed.val.v.local, <<0>>)
                           ELSE parsed.val
                 IN Ok(astimezone_utc(dt))

\* parse_timestamp(value, required): Ok(Null), Ok(an aware UTC datetime) or
\* a raised ValueError.  A decoded JSON row never holds a datetime object,
\* so the isinstance(value, datetime) branch is not taken.
parse_timestamp(value, required) ==
    IF IsNull(value) \/ IsEmptyStr(value)
    THEN IF required THEN Raise("missing required timestamp") ELSE Ok(Null)
    ELSE LET stripped == Strip(PyStr(value))
             text == IF stripped # <<>> /\ stripped[Len(stripped)] = "Z"
                     THEN Append(SubSeq(stripped, 1, Len(stripped) - 1), "+00:00")
                     ELSE stripped
             parsed == fromisoformat(text)
         IN IF ~parsed.ok THEN parsed
            ELSE LET dt == IF parsed.val.v.tz = <<>>
                           THEN DateTime(parsed.val.v.local, <<0>>)
                           ELSE parsed.val
                 IN Ok(astimezone_utc(dt))

\* dt.isoformat() of an aware UTC datetime.
isoformat(dt) ==
    JStr(<<CHOOSE c \in DOMAIN IsoLocal : IsoLocal[c] = dt.v.local, "+00:00">>)

\* validate_counts.parse_ts: the same parse, rendered with isoformat().
parse_ts(value) ==
    IF IsNull(value) \/ IsEmptyStr(value) THEN Ok(Null)
    ELSE LET parsed == parse_timestamp(value, FALSE)
         IN IF parsed.ok THEN Ok(isoformat(parsed.val)) ELSE parsed

----------------------------------------------------------------------------
(* Integers and booleans.                                                  *)

DigitValue(c) == (CHOOSE i \in 1..10 : Digits[i] = c) - 1

IsDigit(c) == \E i \in 1..10 : Digits[i] = c

RECURSIVE DigitsValue(_)
DigitsValue(s) ==
    IF s = <<>> THEN 0
    ELSE DigitsValue(SubSeq(s, 1, Len(s) - 1)) * 10 + DigitValue(s[Len(s)])

\* int(text): optional sign, then decimal digits, surrounding space ignored.
int_of_text(s) ==
    LET t == Strip(s)
        signed == t # <<>> /\ t[1] \in {"-", "+"}
        body == IF signed THEN Tail(t) ELSE t
    IN IF body # <<>> /\ \A i \in 1..Len(body) : IsDigit(body[i])
       THEN Ok(IF signed /\ t[1] = "-" THEN 0 - DigitsValue(body) ELSE DigitsValue(body))
       ELSE Raise("ValueError")

\* parse_int(value, default): int(value), with TypeError and ValueError
\* caught.  int(float("inf")) raises OverflowError, which is not caught;
\* int(float("nan")) raises ValueError.
parse_int(value, default) ==
    IF IsNull(value) \/ IsEmptyStr(value) THEN Ok(default)
    ELSE CASE value.t = "int"  -> Ok(value.v)
           [] value.t = "bool" -> Ok(IF value.v THEN 1 ELSE 0)
           [] value.t = "str"  -> LET r == int_of_text(value.v)
                                  IN IF r.ok THEN r ELSE Ok(default)
           [] value.t = "float" ->
                 CASE value.v.kind = "half" -> Ok(value.v.whole)
                   [] value.v.kind = "nan"  -> Ok(default)
                   [] OTHER -> Raise("cannot convert float infinity to integer")
           [] OTHER            -> Ok(default)

TrueWords == {<<"1">>, <<"t","r","u","e">>, <<"t">>, <<"y","e","s">>, <<"y">>}

FalseWords == {<<"0">>, <<"f","a","l","s","e">>, <<"f">>, <<"n","o">>, <<"n">>}

\* parse_bool(value, default)
parse_bool(value, default) ==
    CASE value.t = "null" -> default
      [] value.t = "bool" -> value.v
      [] value.t = "int"  -> value.v # 0
      [] value.t = "float" -> TRUE
      [] value.t = "str"  -> LET lowered == Lower(Strip(value.v))
                             IN IF lowered \in TrueWords THEN TRUE
                                ELSE IF lowered \in FalseWords THEN FALSE
                                ELSE default
      [] OTHER            -> default

----------------------------------------------------------------------------
(* The importer: counters, the reject log and the destination.             *)

Tables == <<"watch_accounts", "posts", "reports", "pipeline_runs", "embeddings">>

TableSet == {Tables[i] : i \in 1..Len(Tables)}

SnapshotTable == "post_metrics_snapshots"

\* Counters()
NewCounters == [received |-> 0, inserted |-> 0, updated |-> 0, skipped |-> 0, errors |-> 0]

\* log_reject that records the number of rows received so far instead of
\* the line number iter_jsonl yields.
log_reject_row_number(log, table, index, reason, row, c) ==
    [log      |-> Append(log, [table |-> table, index |-> c.received,
                               reason |-> reason, row |-> row]),
     counters |-> [c EXCEPT !.errors = @ + 1]]

\* log_reject(handle, table, index, reason, row, counters): writes one line
\* to the reject log and adds one to counters.errors.
log_reject(log, table, index, reason, row, c) ==
    [log      |-> Append(log, [table |-> table, index |-> index,
                               reason |-> reason, row |-> row]),
     counters |-> [c EXCEPT !.errors = @ + 1]]

\* What the body of a row's try block comes to before the upsert.
Skip(reason) == [kind |-> "skip", reason |-> reason, values |-> <<>>]

Fail(reason) == [kind |-> "raise", reason |-> reason, values |-> <<>>]

Upsert(values) == [kind |-> "upsert", reason |-> "", values |-> values]

\* The columns of each table's ON CONFLICT target (its natural key).
ConflictTarget(table) ==
    CASE table = "watch_accounts" -> <<"handle">>
      [] table = "posts"          -> <<"status_id">>
      [] table = "reports"        -> <<"status_id">>
      [] table = "pipeline_runs"  -> <<"run_at", "mode", "source">>
      [] table = "embeddings"     -> <<"status_id">>

KeyOf(table, values) ==
    [i \in 1..Len(ConflictTarget(table)) |-> values[ConflictTarget(table)[i]]]

\* The columns each statement's DO UPDATE SET assigns from EXCLUDED.
\* (watch_accounts and posts also set the destination's own updated_at to
\* now(); that column takes no value from the row and is not modelled.)
UpdateSet(table) ==
    CASE table = "watch_accounts" -> {"tier", "note", "added_at"}
      [] table = "posts" ->
            {"url", "author_handle", "author_display", "body_text", "posted_relative",
             "source_query", "watch_tier", "is_significant", "significance_reason",
             "significance_version", "likes", "reposts", "replies", "views",
             "initial_likes", "initial_reposts", "initial_replies", "initial_views",
             "likes_24h", "reposts_24h", "replies_24h", "views_24h",
             "refresh_24h_at", "refresh_24h_status", "refresh_24h_delta_likes",
             "refresh_24h_delta_reposts", "refresh_24h_delta_replies",
             "refresh_24h_delta_views", "discovered_at", "last_seen_at"}
      [] table = "reports" -> {"reported_at", "channel", "summary", "destination"}
      [] table = "pipeline_runs" ->
            {"fetched_count", "significant_count", "reported_count", "note"}
      [] table = "embeddings" ->
            {"backend", "model", "dims", "vector_json", "text_hash", "updated_at"}

\* The driver binds str, int, bool, None and datetime parameters; a nested
\* JSON object has no adapter and makes cur.execute raise.
CanBind(values) == \A c \in DOMAIN values : values[c].t # "dict"

\* RETURNING (xmax <> 0): the flag inverted.
xmax_is_not_zero(rows, key) == key \in DOMAIN rows

\* RETURNING (xmax = 0): true for a row the statement inserted.
xmax_is_zero(rows, key) == key \notin DOMAIN rows

\* INSERT ... ON CONFLICT (key) DO NOTHING: an existing row is kept as it is.
on_conflict_do_nothing(table, rows, values) ==
    LET key == KeyOf(table, values)
    IN [k \in DOMAIN rows \cup {key} |-> IF k \in DOMAIN rows THEN rows[k] ELSE values]

\* INSERT ... ON CONFLICT (key) DO UPDATE SET ... on one table.
on_conflict_do_update(table, rows, values) ==
    LET key == KeyOf(table, values)
    IN [k \in DOMAIN rows \cup {key} |->
          IF k # key THEN rows[k]
          ELSE IF key \notin DOMAIN rows THEN values
          ELSE [c \in DOMAIN values |->
                  IF c \in UpdateSet(table) THEN values[c] ELSE rows[key][c]]]

\* run_upsert that reports every row the statement returned as inserted.
run_upsert_always_inserted(table, rows, values) ==
    IF ~CanBind(values) THEN Raise("cannot adapt type 'dict'")
    ELSE Ok([rows     |-> on_conflict_do_update(table, rows, values),
             inserted |-> TRUE])

\* run_upsert(cur, sql, values): the table afterwards and the inserted flag.
run_upsert(table, rows, values) ==
    IF ~CanBind(values) THEN Raise("cannot adapt type 'dict'")
    ELSE Ok([rows     |-> on_conflict_do_update(table, rows, values),
             inserted |-> xmax_is_zero(rows, KeyOf(table, values))])

----------------------------------------------------------------------------
(* Per-table rows.                                                         *)

\* import_watch_accounts whose check looks at the handle only.
watch_accounts_row_any_tier(row) ==
    LET handle   == normalize_handle(get_first(row, <<"handle", "author_handle">>))
        tier     == normalize_tier(get_first(row, <<"tier", "watch_tier">>))
        added_at == parse_timestamp(
                        get_first(row, <<"added_at", "created_at", "updated_at">>), TRUE)
        note     == get_first(row, <<"note">>)
    IN IF ~added_at.ok THEN Fail(added_at.err)
       ELSE IF ~Truthy(handle) THEN Skip("missing handle or tier")
       ELSE Upsert([handle |-> handle, tier |-> tier, note |-> note,
                    added_at |-> added_at.val])

\* import_watch_accounts, the try block up to the upsert.
watch_accounts_row(row) ==
    LET handle   == normalize_handle(get_first(row, <<"handle", "author_handle">>))
        tier     == normalize_tier(get_first(row, <<"tier", "watch_tier">>))
        added_at == parse_timestamp(
                        get_first(row, <<"added_at", "created_at", "updated_at">>), TRUE)
        note     == get_first(row, <<"note">>)
    IN IF ~added_at.ok THEN Fail(added_at.err)
       ELSE IF ~Truthy(handle) \/ ~Truthy(tier) THEN Skip("missing handle or tier")
       ELSE Upsert([handle |-> handle, tier |-> tier, note |-> note,
                    added_at |-> added_at.val])

\* str(x or "").strip()
str_or_empty(x) == Strip(IF Truthy(x) THEN PyStr(x) ELSE <<>>)

\* x or default
or_default(x, default) == IF Truthy(x) THEN x ELSE default

\* import_posts, the try block up to the upsert.  The values tuple is built
\* left to right, so the first timestamp that cannot be parsed raises.
posts_row(row) ==
    LET status_id == str_or_empty(get_first(row, <<"status_id", "id">>))
        url == str_or_empty(get_first(row, <<"url", "status_url", "tweet_url">>))
        author_handle ==
            normalize_handle(get_first(row, <<"author_handle", "handle", "author", "username">>))
        tier == normalize_tier(get_first(row, <<"watch_tier", "tier">>))
        refresh_24h_at == parse_timestamp(get_first(row, <<"refresh_24h_at">>), FALSE)
        discovered_at ==
            parse_timestamp(get_first(row, <<"discovered_at", "captured_at", "created_at">>), TRUE)
        last_seen_at ==
            parse_timestamp(get_first(row, <<"last_seen_at", "updated_at", "seen_at">>), TRUE)
        count(keys) == parse_int(get_first(row, keys), 0)
        int(keys) == JInt(count(keys).val)
        counts == {<<"likes">>, <<"reposts", "retweets">>, <<"replies">>, <<"views">>,
                   <<"initial_likes">>, <<"initial_reposts", "initial_retweets">>,
                   <<"initial_replies">>, <<"initial_views">>, <<"likes_24h">>,
                   <<"reposts_24h", "retweets_24h">>, <<"replies_24h">>, <<"views_24h">>}
        deltas == {<<"refresh_24h_delta_likes">>,
                   <<"refresh_24h_delta_reposts", "refresh_24h_delta_retweets">>,
                   <<"refresh_24h_delta_replies">>, <<"refresh_24h_delta_views">>}
    IN IF status_id = <<>> \/ url = <<>> \/ ~Truthy(author_handle)
       THEN Skip("missing status_id/url/author_handle")
       ELSE IF \E keys \in counts : ~count(keys).ok
       THEN Fail("cannot convert float infinity to integer")
       ELSE IF ~refresh_24h_at.ok THEN Fail(refresh_24h_at.err)
       ELSE IF \E keys \in deltas : ~count(keys).ok
       THEN Fail("cannot convert float infinity to integer")
       ELSE IF ~discovered_at.ok THEN Fail(discovered_at.err)
       ELSE IF ~last_seen_at.ok THEN Fail(last_seen_at.err)
       ELSE Upsert(
         [status_id |-> JStr(status_id),
          url |-> JStr(url),
          author_handle |-> author_handle,
          author_display |-> get_first(row, <<"author_display", "display_name", "author_name">>),
          body_text |-> get_first(row, <<"body_text", "text", "tweet_text", "content">>),
          posted_relative |-> get_first(row, <<"posted_relative">>),
          source_query |-> get_first(row, <<"source_query", "query_type", "source">>),
          watch_tier |-> tier,
          is_significant |->
              JBool(parse_bool(get_first(row, <<"is_significant", "significant">>), FALSE)),
          significance_reason |-> get_first(row, <<"significance_reason", "reason">>),
          significance_version |->
              or_default(get_first(row, <<"significance_version">>), JStr(<<"v","1">>)),
          likes |-> int(<<"likes">>),
          reposts |-> int(<<"reposts", "retweets">>),
          replies |-> int(<<"replies">>),
          views |-> int(<<"views">>),
          initial_likes |-> int(<<"initial_likes">>),
          initial_reposts |-> int(<<"initial_reposts", "initial_retweets">>),
          initial_replies |-> int(<<"initial_replies">>),
          initial_views |-> int(<<"initial_views">>),
          likes_24h |-> int(<<"likes_24h">>),
          reposts_24h |-> int(<<"reposts_24h", "retweets_24h">>),
          replies_24h |-> int(<<"replies_24h">>),
          views_24h |-> int(<<"views_24h">>),
          refresh_24h_at |-> refresh_24h_at.val,
          refresh_24h_status |-> get_first(row, <<"refresh_24h_status">>),
          refresh_24h_delta_likes |-> int(<<"refresh_24h_delta_likes">>),
          refresh_24h_delta_reposts |->
              int(<<"refresh_24h_delta_reposts", "refresh_24h_delta_retweets">>),
          refresh_24h_delta_replies |-> int(<<"refresh_24h_delta_replies">>),
          refresh_24h_delta_views |-> int(<<"refresh_24h_delta_views">>),
          discovered_at |-> discovered_at.val,
          last_seen_at |-> last_seen_at.val])

\* import_reports, the try block up to the upsert.
reports_row(row) ==
    LET status_id == str_or_empty(get_first(row, <<"status_id">>))
        reported_at == parse_timestamp(get_first(row, <<"reported_at", "created_at">>), TRUE)
    IN IF ~reported_at.ok THEN Fail(reported_at.err)
       ELSE IF status_id = <<>> THEN Skip("missing status_id")
       ELSE Upsert([status_id |-> JStr(status_id),
                    reported_at |-> reported_at.val,
                    channel |-> get_first(row, <<"channel">>),
                    summary |-> get_first(row, <<"summary">>),
                    destination |-> get_first(row, <<"destination">>)])

local_dispatcher == <<"l","o","c","a","l","-","d","i","s","p","a","t","c","h","e","r">>

\* import_pipeline_runs, the try block up to the upsert.
pipeline_runs_row(row) ==
    LET run_at == parse_timestamp(get_first(row, <<"run_at", "created_at", "timestamp">>), TRUE)
        mode == normalize_run_mode(get_first(row, <<"mode">>))
        stripped == Strip(PyStr(or_default(get_first(row, <<"source">>), JStr(local_dispatcher))))
        source == IF stripped # <<>> THEN stripped ELSE local_dispatcher
        count(key) == parse_int(get_first(row, <<key>>), 0)
    IN IF ~run_at.ok THEN Fail(run_at.err)
       ELSE IF ~Truthy(mode) THEN Skip("invalid mode")
       ELSE IF \E key \in {"fetched_count", "significant_count", "reported_count"} :
                  ~count(key).ok
       THEN Fail("cannot convert float infinity to integer")
       ELSE Upsert([run_at |-> run_at.val,
                    mode |-> mode,
                    fetched_count |-> JInt(count("fetched_count").val),
                    significant_count |-> JInt(count("significant_count").val),
                    reported_count |-> JInt(count("reported_count").val),
                    note |-> get_first(row, <<"note">>),
                    source |-> JStr(source)])

\* json.loads of the texts an embedding vector is exported as.
json_loads(text) ==
    IF text = <<"[", "]">> THEN Ok(JList(<<>>))
    ELSE IF text = <<"[", "1", ",", "2", "]">> THEN Ok(JList(<<1, 2>>))
    ELSE Raise("Expecting value")

\* normalize_vector_json(value)
normalize_vector_json(value) ==
    CASE value.t = "null" -> Ok(JList(<<>>))
      [] value.t \in {"list", "dict"} -> Ok(value)
      [] value.t = "str" ->
            IF Strip(value.v) = <<>> THEN Ok(JList(<<>>)) ELSE json_loads(Strip(value.v))
      [] OTHER -> Ok(value)

\* A value serialized by json.dumps and bound to a %s::jsonb placeholder.
Json(x) == [t |-> "json", v |-> x]

\* import_embeddings, the try block up to the upsert.
embeddings_row(row) ==
    LET status_id == str_or_empty(get_first(row, <<"status_id">>))
        backend == str_or_empty(get_first(row, <<"backend">>))
        model == str_or_empty(get_first(row, <<"model">>))
        text_hash == str_or_empty(get_first(row, <<"text_hash">>))
        created_at == parse_timestamp(get_first(row, <<"created_at">>), TRUE)
        updated_at == parse_timestamp(get_first(row, <<"updated_at", "created_at">>), TRUE)
        vector == normalize_vector_json(get_first(row, <<"vector_json">>))
        given_dims == parse_int(get_first(row, <<"dims">>), 0)
        dims == IF given_dims.val <= 0 /\ vector.val.t = "list"
                THEN Len(vector.val.v)
                ELSE given_dims.val
    IN IF status_id = <<>> \/ backend = <<>> \/ model = <<>> \/ text_hash = <<>>
       THEN Skip("missing required embedding fields")
       ELSE IF ~created_at.ok THEN Fail(created_at.err)
       ELSE IF ~updated_at.ok THEN Fail(updated_at.err)
       ELSE IF ~vector.ok THEN Fail(vector.err)
       ELSE IF ~given_dims.ok THEN Fail(given_dims.err)
       ELSE Upsert([status_id |-> JStr(status_id),
                    backend |-> JStr(backend),
                    model |-> JStr(model),
                    dims |-> JInt(dims),
                    vector_json |-> Json(vector.val),
                    text_hash |-> JStr(text_hash),
                    created_at |-> created_at.val,
                    updated_at |-> updated_at.val])

\* The try block of each importer's loop body, up to the upsert.  A line
\* that decodes to a number is no mapping: the first `key in row` raises.
row_values(table, line) ==
    IF line.kind = "scalar" THEN Fail("argument of type 'int' is not iterable")
    ELSE CASE table = "watch_accounts" -> watch_accounts_row(line.row)
           [] table = "posts"          -> posts_row(line.row)
           [] table = "reports"        -> reports_row(line.row)
           [] table = "pipeline_runs"  -> pipeline_runs_row(line.row)
           [] table = "embeddings"     -> embeddings_row(line.row)

\* The outcome of one loop iteration: the counters, the reject log and the
\* table afterwards, and what happened to the row.
RowResult(c, log, rows, outcome, reason) ==
    [counters |-> c, log |-> log, rows |-> rows, outcome |-> outcome, reason |-> reason]

\* The except clause on a connection without autocommit, where the failed
\* row's rollback takes the table's earlier upserts of the run with it.
rejected_rolls_back(table, index, line, c, log, rows, outcome, reason) ==
    RowResult(log_reject(log, table, index, reason, line.row, c).counters,
              log_reject(log, table, index, reason, line.row, c).log,
              <<>>, outcome, reason)

\* Any path of the loop body that ends in log_reject.
rejected(table, index, line, c, log, rows, outcome, reason) ==
    RowResult(log_reject(log, table, index, reason, line.row, c).counters,
              log_reject(log, table, index, reason, line.row, c).log,
              rows, outcome, reason)

\* The loop body from run_upsert on: `inserted = run_upsert(...)`, the
\* inserted/updated counters, and the except clause when it raised.
after_upsert(table, index, line, c, log, rows, done) ==
    IF ~done.ok THEN rejected(table, index, line, c, log, rows, "error", done.err)
    ELSE IF done.val.inserted
    THEN RowResult([c EXCEPT !.inserted = @ + 1], log, done.val.rows, "inserted", "")
    ELSE RowResult([c EXCEPT !.updated = @ + 1], log, done.val.rows, "updated", "")

\* The loop body with the skip branch leaving counters.skipped alone.
after_values_skip_uncounted(table, index, line, c, log, rows, tried) ==
    CASE tried.kind = "skip" ->
            rejected(table, index, line, c, log, rows, "skipped", tried.reason)
      [] tried.kind = "raise" ->
            rejected(table, index, line, c, log, rows, "error", tried.reason)
      [] OTHER ->
            after_upsert(table, index, line, c, log, rows,
                         run_upsert(table, rows, tried.values))

\* The loop body once the row's fields are extracted: the skip branch
\* (counters.skipped += 1, log_reject, continue), the except clause, or
\* the upsert.
after_values(table, index, line, c, log, rows, tried) ==
    CASE tried.kind = "skip" ->
            rejected(table, index, line, [c EXCEPT !.skipped = @ + 1], log, rows,
                     "skipped", tried.reason)
      [] tried.kind = "raise" ->
            rejected(table, index, line, c, log, rows, "error", tried.reason)
      [] OTHER ->
            after_upsert(table, index, line, c, log, rows,
                         run_upsert(table, rows, tried.values))

\* One iteration of `for index, row in iter_jsonl(path)` after json.loads
\* returned: counters.received += 1, then the try/except around the row.
import_row(table, index, line, c, log, rows) ==
    after_values(table, index, line, [c EXCEPT !.received = @ + 1], log, rows,
                 row_values(table, line))

----------------------------------------------------------------------------
(* derive_snapshots.                                                       *)

\* COALESCE(...): the first value that is not NULL.
RECURSIVE Coalesce(_)
Coalesce(xs) ==
    IF Len(xs) = 1 \/ ~IsNull(Head(xs)) THEN Head(xs) ELSE Coalesce(Tail(xs))

SnapshotKinds == <<"initial_capture", "latest_observed", "refresh_24h">>

\* The SELECT list of each statement, for one row p of posts.
snapshot_select(kind, p, source) ==
    CASE kind = "initial_capture" ->
           [status_id |-> p.status_id, snapshot_type |-> kind, snapshot_at |-> p.discovered_at,
            likes   |-> Coalesce(<<p.initial_likes, p.likes, JInt(0)>>),
            reposts |-> Coalesce(<<p.initial_reposts, p.reposts, JInt(0)>>),
            replies |-> Coalesce(<<p.initial_replies, p.replies, JInt(0)>>),
            views   |-> Coalesce(<<p.initial_views, p.views, JInt(0)>>),
            source  |-> source]
      [] kind = "latest_observed" ->
           [status_id |-> p.status_id, snapshot_type |-> kind, snapshot_at |-> p.last_seen_at,
            likes   |-> Coalesce(<<p.likes, JInt(0)>>),
            reposts |-> Coalesce(<<p.reposts, JInt(0)>>),
            replies |-> Coalesce(<<p.replies, JInt(0)>>),
            views   |-> Coalesce(<<p.views, JInt(0)>>),
            source  |-> source]
      [] kind = "refresh_24h" ->
           [status_id |-> p.status_id, snapshot_type |-> kind, snapshot_at |-> p.refresh_24h_at,
            likes   |-> Coalesce(<<p.likes_24h, p.likes, JInt(0)>>),
            reposts |-> Coalesce(<<p.reposts_24h, p.reposts, JInt(0)>>),
            replies |-> Coalesce(<<p.replies_24h, p.replies, JInt(0)>>),
            views   |-> Coalesce(<<p.views_24h, p.views, JInt(0)>>),
            source  |-> source]

\* The WHERE clause of each statement.
snapshot_where(kind, p) == kind = "refresh_24h" => ~IsNull(p.refresh_24h_at)

SnapshotKey(r) == <<r.status_id, r.snapshot_type, r.snapshot_at>>

\* The rows of a result set in the order the statement stores them.
RECURSIVE RowsInOrder(_)
RowsInOrder(S) ==
    IF S = {} THEN <<>>
    ELSE LET r == CHOOSE x \in S : TRUE IN <<r>> \o RowsInOrder(S \ {r})

\* The rows of posts a statement selects.
snapshot_rows(kind, posts, source) ==
    {snapshot_select(kind, posts[k], source) :
        k \in {k \in DOMAIN posts : snapshot_where(kind, posts[k])}}

\* The statement without its ON CONFLICT clause: every selected row is stored.
insert_snapshots_without_on_conflict(kind, posts, snaps, selected) ==
    [rows |-> snaps \o RowsInOrder(selected), rowcount |-> Cardinality(selected)]

\* One INSERT ... SELECT ... FROM posts ON CONFLICT (status_id,
\* snapshot_type, snapshot_at) DO NOTHING: the table afterwards (its rows in
\* storage order) and cur.rowcount.
insert_snapshots(kind, posts, snaps, selected) ==
    LET fresh == {r \in selected :
                    \A i \in DOMAIN snaps : SnapshotKey(snaps[i]) # SnapshotKey(r)}
    IN [rows |-> snaps \o RowsInOrder(fresh), rowcount |-> Cardinality(fresh)]

\* derive_snapshots(cur, source): the three statements in order.
derive_snapshots(posts, snaps, source) ==
    LET s1 == insert_snapshots(SnapshotKinds[1], posts, snaps,
                               snapshot_rows(SnapshotKinds[1], posts, source))
        s2 == insert_snapshots(SnapshotKinds[2], posts, s1.rows,
                               snapshot_rows(SnapshotKinds[2], posts, source))
        s3 == insert_snapshots(SnapshotKinds[3], posts, s2.rows,
                               snapshot_rows(SnapshotKinds[3], posts, source))
    IN [rows |-> s3.rows,
        results |-> [initial_capture |-> s1.rowcount, latest_observed |-> s2.rowcount,
                     refresh_24h |-> s3.rowcount]]

----------------------------------------------------------------------------
(* The input files the model tries.                                        *)

\* Timestamp texts: midnight UTC written three ways, and two other instants.
T0Z == JStr(<<"2024-01-01T00:00:00", "Z">>)

T5plus5 == JStr(<<"2024-01-01T05:00:00", "+05:00">>)

T5naive == JStr(<<"2024-01-01T05:00:00">>)

TDayZ == JStr(<<"2024-01-02T00:00:00", "Z">>)

TBad == JStr(<<"g","a","r","b","a","g","e">>)

Line(kind, row) == [kind |-> kind, row |-> row]

\* Lines every file can hold: an empty line, a line that is not JSON
\* (json.loads raises) and a line that is JSON but no object.
CommonLines == {Line("blank", <<>>), Line("badjson", <<>>), Line("scalar", JInt(7))}

Obj(row) == Line("obj", row)

WatchAccountLines ==
    {Obj([handle |-> JStr(<<"@","F","o","o">>), tier |-> JStr(<<" ","T","e","a","m","m","a","t","e">>), added_at |-> T0Z, note |-> JStr(<<"n","1">>)]),
     Obj([handle |-> JStr(<<"f","o","o">>), tier |-> JStr(<<"i","n","f","l","u","e","n","c","e","r">>), added_at |-> T5naive, note |-> Null]),
     Obj([author_handle |-> JStr(<<"b","a","r">>), watch_tier |-> JStr(<<"e","c","o","s","y","s","t","e","m">>), created_at |-> T5plus5]),
     Obj([handle |-> JStr(<<"f","o","o">>), tier |-> JStr(<<"v","i","p">>), added_at |-> T0Z]),
     Obj([handle |-> JStr(<<"@">>), tier |-> JStr(<<"t","e","a","m","m","a","t","e">>), added_at |-> T0Z]),
     Obj([handle |-> JStr(<<"f","o","o">>), tier |-> JStr(<<"t","e","a","m","m","a","t","e">>)]),
     Obj([note |-> JStr(<<"n","1">>)]),
     Obj([handle |-> JStr(<<"f","o","o">>), tier |-> JStr(<<"t","e","a","m","m","a","t","e">>), added_at |-> TBad]),
     Obj([handle |-> JStr(<<"b","a","r">>), tier |-> JStr(<<"t","e","a","m","m","a","t","e">>), added_at |-> T0Z, note |-> JDict])}

PostLines ==
    {Obj([status_id |-> JStr(<<"1">>), url |-> JStr(<<"u">>), author_handle |-> JStr(<<"@","F","o","o">>), likes |-> JStr(<<"1","0">>),
          discovered_at |-> T0Z, last_seen_at |-> T5naive]),
     Obj([id |-> JInt(1), status_url |-> JStr(<<"v">>), handle |-> JStr(<<"f","o","o">>), reposts |-> JInt(3),
          retweets |-> JInt(7), is_significant |-> JStr(<<"y","e","s">>), likes_24h |-> JInt(4),
          refresh_24h_at |-> TDayZ, captured_at |-> T5plus5, seen_at |-> TDayZ]),
     Obj([status_id |-> JStr(<<"2">>), url |-> JStr(<<"u">>), author_handle |-> JStr(<<"@","F","o","o">>), likes |-> JStr(<<"1","0">>)]),
     Obj([status_id |-> JStr(<<"1">>), author_handle |-> JStr(<<"f","o","o">>), discovered_at |-> T0Z,
          last_seen_at |-> T0Z]),
     Obj([status_id |-> JStr(<<"2">>), url |-> JStr(<<"u">>), author_handle |-> JStr(<<"f","o","o">>), refresh_24h_at |-> TBad]),
     Obj([status_id |-> JStr(<<"2">>), url |-> JStr(<<"u">>), author_handle |-> JStr(<<"f","o","o">>), body_text |-> JDict,
          discovered_at |-> T0Z, last_seen_at |-> T0Z]),
     Obj([status_id |-> JStr(<<"2">>), url |-> JStr(<<"u">>), author_handle |-> JStr(<<"f","o","o">>), likes |-> Infinity]),
     Obj([likes |-> JStr(<<"1","0">>)])}

ReportLines ==
    {Obj([status_id |-> JStr(<<"1">>), reported_at |-> T0Z, channel |-> JStr(<<"c","1">>), summary |-> JStr(<<"s","1">>),
          destination |-> JStr(<<"d","1">>)]),
     Obj([status_id |-> JStr(<<" ","1"," ">>), created_at |-> T5naive, channel |-> JStr(<<"c","2">>)]),
     Obj([reported_at |-> T0Z, channel |-> JStr(<<"c","1">>)]),
     Obj([status_id |-> JStr(<<"1">>), channel |-> JStr(<<"c","1">>)]),
     Obj([channel |-> JStr(<<"c","1">>)]),
     Obj([status_id |-> JStr(<<"2">>), reported_at |-> T0Z, summary |-> JDict])}

PipelineRunLines ==
    {Obj([run_at |-> T0Z, mode |-> JStr(<<"r","e","f","r","e","s","h","-","2","4","h">>), fetched_count |-> JStr(<<"5">>), note |-> JStr(<<"n","1">>),
          source |-> JStr(<<"c","r","o","n">>)]),
     Obj([timestamp |-> T5plus5, mode |-> JStr(<<"R","e","f","r","e","s","h","_","2","4","H">>), fetched_count |-> JInt(7),
          source |-> JStr(<<" ","c","r","o","n"," ">>)]),
     Obj([run_at |-> T0Z, mode |-> JStr(<<"m","a","n","u","a","l">>)]),
     Obj([run_at |-> T0Z, mode |-> JStr(<<"w","e","e","k","l","y">>)]),
     Obj([mode |-> JStr(<<"m","a","n","u","a","l">>)]),
     Obj([note |-> JStr(<<"n","1">>)]),
     Obj([run_at |-> T0Z, mode |-> JStr(<<"b","o","t","h">>), note |-> JDict])}

EmbeddingLines ==
    {Obj([status_id |-> JStr(<<"1">>), backend |-> JStr(<<"b">>), model |-> JStr(<<"m">>), text_hash |-> JStr(<<"h">>),
          created_at |-> T0Z, updated_at |-> T5naive,
          vector_json |-> JStr(<<"[", "1", ",", "2", "]">>), dims |-> JInt(0)]),
     Obj([status_id |-> JStr(<<"1">>), backend |-> JStr(<<"b","2">>), model |-> JStr(<<"m">>), text_hash |-> JStr(<<"h","2">>),
          created_at |-> TDayZ, vector_json |-> JList(<<1, 2>>), dims |-> JInt(5)]),
     Obj([status_id |-> JStr(<<"1">>), model |-> JStr(<<"m">>), text_hash |-> JStr(<<"h">>), created_at |-> T0Z]),
     Obj([status_id |-> JStr(<<"1">>), backend |-> JStr(<<"b">>), model |-> JStr(<<"m">>), text_hash |-> JStr(<<"h">>)]),
     Obj([dims |-> JInt(2)]),
     Obj([status_id |-> JStr(<<"2">>), backend |-> JStr(<<"b">>), model |-> JStr(<<"m">>), text_hash |-> JStr(<<"h">>),
          created_at |-> T0Z, vector_json |-> JStr(<<"o","o","p","s">>)])}

LinesOf(table) ==
    CommonLines \cup
    CASE table = "watch_accounts" -> WatchAccountLines
      [] table = "posts"          -> PostLines
      [] table = "reports"        -> ReportLines
      [] table = "pipeline_runs"  -> PipelineRunLines
      [] table = "embeddings"     -> EmbeddingLines

TableRank(table) == CHOOSE i \in 1..Len(Tables) : Tables[i] = table

\* Every choice of at most MaxLines lines, listed file by file.
InputChoices ==
    LET Entries == {<<t, l>> : t \in TableSet, l \in UNION {LinesOf(u) : u \in TableSet}}
        Valid == {e \in Entries : e[2] \in LinesOf(e[1])}
    IN {s \in UNION {[1..n -> Valid] : n \in 0..MaxLines} :
          \A i \in 1..(Len(s) - 1) : TableRank(s[i][1]) <= TableRank(s[i + 1][1])}

RECURSIVE LinesFor(_, _)
LinesFor(s, table) ==
    IF s = <<>> THEN <<>>
    ELSE IF Head(s)[1] = table THEN <<Head(s)[2]>> \o LinesFor(Tail(s), table)
    ELSE LinesFor(Tail(s), table)

FilesOf(s) == [t \in TableSet |-> LinesFor(s, t)]

----------------------------------------------------------------------------
(* The pure-function harness.                                              *)

HandleAlphabet == {"@", " ", "a", "A"}

HandleTexts == UNION {[1..n -> HandleAlphabet] : n \in 0..MaxHandleLen}

ProbeIdle == [fn |-> "none", arg |-> Null, out |-> <<>>]

----------------------------------------------------------------------------
(* main() of the importer as a state machine.                              *)

\* --source, at its default.
SourceLabel == JStr(<<"s","q","l","i","t","e","_","m","i","g","r","a","t","i","o","n">>)

EmptyTable == [k \in {} |-> Null]

EmptyDb == [t \in TableSet \cup {SnapshotTable} |-> IF t = SnapshotTable THEN <<>> ELSE EmptyTable]

NoSummary == [t \in {} |-> NewCounters]

LastNone == [run |-> 0, table |-> "", index |-> 0, outcome |-> "none", reason |-> ""]

RowCounts(d) == [t \in DOMAIN d |-> Cardinality(DOMAIN d[t])]

\* The environment variables connect_postgres requires when no
\* --database-url is given.
RequiredPgVars == {"PGHOST", "PGDATABASE", "PGUSER"}

\* An environment in which main() gets as far as the importers: the input
\* directory and the five files exist and the DB config is complete.
EnvReady == [input_dir |-> TRUE, missing |-> {}, database_url |-> TRUE, pg |-> {}]

\* connect_postgres that goes on to psycopg.connect without looking at the
\* environment.
connect_postgres_unchecked(e) == Ok(Null)

\* connect_postgres(database_url): a connection, or SystemExit.
connect_postgres(e) ==
    IF e.database_url THEN Ok(Null)
    ELSE IF RequiredPgVars \ e.pg # {} THEN Raise("Missing DB config")
    ELSE Ok(Null)

ValidatorIdle == [pc |-> "none"]

PurgeIdle == [pc |-> "none"]

Init ==
    /\ \E s \in InputChoices : files = FilesOf(s)
    /\ env = EnvReady
    /\ validator = ValidatorIdle
    /\ purge = PurgeIdle
    /\ run = 1
    /\ pc = "start"
    /\ idx = 0
    /\ counters = NewCounters
    /\ summary = NoSummary
    /\ rejectLog = <<>>
    /\ db = EmptyDb
    /\ last = LastNone
    /\ history = <<>>
    /\ probe = ProbeIdle

\* The reject log opened with mode "a": what it held stays.
path_open_a(contents) == contents

\* path.open("w"): the file is emptied.
path_open_w(contents) == <<>>

\* main() up to the first importer: the input directory exists, the
\* connection is opened and open_reject_log opens the reject log with mode
\* "w", which empties it.
open_reject_log ==
    /\ pc = "start"
    /\ env.input_dir
    /\ connect_postgres(env).ok
    /\ pc' = Tables[1]
    /\ rejectLog' = path_open_w(rejectLog)
    /\ summary' = NoSummary
    /\ counters' = NewCounters
    /\ idx' = 0
    /\ UNCHANGED <<files, run, db, last, history, probe, env, validator, purge>>

\* An exception that leaves main(): the with blocks close the reject log
\* and the connection, nothing is printed, the process ends with a traceback.
Crash(table, index) ==
    /\ pc' = "crashed"
    /\ last' = [run |-> run, table |-> table, index |-> index, outcome |-> "abort",
                reason |-> "JSONDecodeError"]
    /\ history' = Append(history, [status |-> "crashed", summary |-> summary,
                                   counts |-> RowCounts(db), exit |-> 1])
    /\ UNCHANGED <<files, run, idx, counters, summary, rejectLog, db, probe, env, validator, purge>>

\* The loop body's effect on the importer's state.
StoreRow(table, index, r) ==
    /\ idx' = index
    /\ counters' = r.counters
    /\ rejectLog' = r.log
    /\ db' = [db EXCEPT ![table] = r.rows]
    /\ last' = [run |-> run, table |-> table, index |-> index,
                outcome |-> r.outcome, reason |-> r.reason]
    /\ UNCHANGED <<files, run, pc, summary, history, probe, env, validator, purge>>

\* One step of an importer's `for index, row in iter_jsonl(path)` loop:
\* iter_jsonl reads the next line, skips it when blank, json.loads it
\* (outside any try block) and the loop body handles the row.
ImportLine(table) ==
    /\ pc = table
    /\ table \notin env.missing
    /\ idx < Len(files[table])
    /\ LET index == idx + 1
           line == files[table][idx + 1]
       IN CASE line.kind = "blank" ->
                 /\ idx' = index
                 /\ last' = [run |-> run, table |-> table, index |-> index,
                             outcome |-> "blank", reason |-> ""]
                 /\ UNCHANGED <<files, run, pc, counters, summary, rejectLog, db,
                                history, probe, env, validator, purge>>
            [] line.kind = "badjson" -> Crash(table, index)
            [] OTHER ->
                 StoreRow(table, index,
                          import_row(table, index, line, counters, rejectLog, db[table]))

\* The importer returns its counters (or, when the table's file does not
\* exist, main() takes Counters() as they are); main() stores them in the
\* summary and goes on to the next table, or to the derived snapshots.
ReturnCounters(table) ==
    /\ pc = table
    /\ table \in env.missing \/ idx = Len(files[table])
    /\ summary' = [t \in DOMAIN summary \cup {table} |->
                     IF t = table THEN counters ELSE summary[t]]
    /\ pc' = IF TableRank(table) < Len(Tables) THEN Tables[TableRank(table) + 1] ELSE "derive"
    /\ counters' = NewCounters
    /\ idx' = 0
    /\ UNCHANGED <<files, run, rejectLog, db, last, history, probe, env, validator, purge>>

import_watch_accounts == ImportLine("watch_accounts") \/ ReturnCounters("watch_accounts")

import_posts == ImportLine("posts") \/ ReturnCounters("posts")

import_reports == ImportLine("reports") \/ ReturnCounters("reports")

import_pipeline_runs == ImportLine("pipeline_runs") \/ ReturnCounters("pipeline_runs")

import_embeddings == ImportLine("embeddings") \/ ReturnCounters("embeddings")

\* A main() whose status tells of rejected rows.
main_return_one_on_rejects(printed) ==
    IF \E t \in DOMAIN printed \cap TableSet :
          printed[t].skipped + printed[t].errors > 0
    THEN 1 ELSE 0

\* The value main() returns once the summary is printed.
main_return(printed) == 0

\* main(): derive_snapshots, then the summary is printed and main returns 0.
derive_and_finish ==
    /\ pc = "derive"
    /\ LET d == derive_snapshots(db["posts"], db[SnapshotTable], SourceLabel)
           newDb == [db EXCEPT ![SnapshotTable] = d.rows]
           newSummary == [t \in DOMAIN summary \cup {"derived_snapshots"} |->
                            IF t = "derived_snapshots" THEN d.results ELSE summary[t]]
       IN /\ db' = newDb
          /\ summary' = newSummary
          /\ history' = Append(history, [status |-> "done", summary |-> newSummary,
                                         counts |-> RowCounts(newDb),
                                         exit |-> main_return(newSummary)])
    /\ pc' = "done"
    /\ UNCHANGED <<files, run, idx, counters, rejectLog, last, probe, env, validator, purge>>

\* The operator starts the importer again on the same input files.
run_again ==
    /\ pc \in {"done", "crashed"}
    /\ run < MaxRuns
    /\ run' = run + 1
    /\ pc' = "start"
    /\ UNCHANGED <<files, idx, counters, summary, rejectLog, db, last, history, probe, env, validator, purge>>

Next ==
    \/ open_reject_log
    \/ import_watch_accounts
    \/ import_posts
    \/ import_reports
    \/ import_pipeline_runs
    \/ import_embeddings
    \/ derive_and_finish
    \/ run_again

Spec == Init /\ [][Next]_vars

----------------------------------------------------------------------------
(* The importer started in any environment: the input directory or some    *)
(* of its files may not exist, the DB config may be incomplete.            *)

\* The environments main() can find.
Environments ==
    {[input_dir |-> d, missing |-> m, database_url |-> u, pg |-> g] :
        d \in BOOLEAN, u \in BOOLEAN,
        m \in {{}, TableSet} \cup {{t} : t \in TableSet},
        g \in {{}, RequiredPgVars} \cup {RequiredPgVars \ {x} : x \in RequiredPgVars}}

InitStartup ==
    /\ env \in Environments
    /\ \E s \in {c \in InputChoices : Len(c) <= 1} :
          /\ files = FilesOf(s)
          /\ \A i \in DOMAIN s : s[i][1] \notin env.missing
    /\ validator = ValidatorIdle
    /\ purge = PurgeIdle
    /\ run = 1
    /\ pc = "start"
    /\ idx = 0
    /\ counters = NewCounters
    /\ summary = NoSummary
    /\ rejectLog = <<>>
    /\ db = EmptyDb
    /\ last = LastNone
    /\ history = <<>>
    /\ probe = ProbeIdle

\* main(): the input directory does not exist; the error is printed and
\* main returns 1.
input_dir_not_found ==
    /\ pc = "start"
    /\ ~env.input_dir
    /\ pc' = "exit1"
    /\ last' = [run |-> run, table |-> "", index |-> 0, outcome |-> "abort",
                reason |-> "error: input directory not found"]
    /\ UNCHANGED <<files, run, idx, counters, summary, rejectLog, db, history, probe, env,
                   validator, purge>>

\* main(): connect_postgres raises SystemExit with its message.
missing_db_config ==
    /\ pc = "start"
    /\ env.input_dir
    /\ ~connect_postgres(env).ok
    /\ pc' = "fatal"
    /\ last' = [run |-> run, table |-> "", index |-> 0, outcome |-> "abort",
                reason |-> connect_postgres(env).err]
    /\ UNCHANGED <<files, run, idx, counters, summary, rejectLog, db, history, probe, env,
                   validator, purge>>

NextStartup ==
    \/ input_dir_not_found
    \/ missing_db_config
    \/ open_reject_log
    \/ import_watch_accounts
    \/ import_posts
    \/ import_reports
    \/ import_pipeline_runs
    \/ import_embeddings
    \/ derive_and_finish
    \/ run_again

SpecStartup == InitStartup /\ [][NextStartup]_vars

----------------------------------------------------------------------------
(* The harness specification: one pure function applied to one input, and  *)
(* applied again to its own result.                                        *)

ProbeInputs ==
    {[fn |-> f, arg |-> JStr(x), out |-> <<>>] :
        f \in {"import", "omit", "watch_accounts", "posts"}, x \in HandleTexts}

\* A row of the table that is complete but for the handle under test.
HandleRow(table, value) ==
    IF table = "watch_accounts"
    THEN Obj([handle |-> value, tier |-> JStr(<<"t","e","a","m","m","a","t","e">>),
              added_at |-> T0Z])
    ELSE Obj([status_id |-> JStr(<<"1">>), url |-> JStr(<<"u">>), author_handle |-> value,
              discovered_at |-> T0Z, last_seen_at |-> T0Z])

\* The handle the importer sends to the destination for such a row
\* (watch_accounts.handle, posts.author_handle), None when it sends none.
StoredHandle(table, tried) ==
    IF tried.kind # "upsert" THEN Null
    ELSE IF table = "watch_accounts" THEN tried.values.handle
    ELSE tried.values.author_handle

\* The function under the probe: the importer's (and validator's)
\* normalize_handle, the purge script's, or an importer's handling of a
\* row with the given handle.
ProbeApply(fn, value) ==
    CASE fn = "import" -> normalize_handle(value)
      [] fn = "omit"   -> omit_normalize_handle(value)
      [] OTHER         -> StoredHandle(fn, row_values(fn, HandleRow(fn, value)))

InitHandle ==
    /\ probe \in ProbeInputs
    /\ env = EnvReady
    /\ validator = ValidatorIdle
    /\ purge = PurgeIdle
    /\ files = FilesOf(<<>>)
    /\ run = 1
    /\ pc = "start"
    /\ idx = 0
    /\ counters = NewCounters
    /\ summary = NoSummary
    /\ rejectLog = <<>>
    /\ db = EmptyDb
    /\ last = LastNone
    /\ history = <<>>

ProbeNormalize ==
    /\ probe.fn # "none"
    /\ probe.out = <<>>
    /\ probe' = [probe EXCEPT !.out = <<ProbeApply(probe.fn, probe.arg)>>]
    /\ UNCHANGED <<importerVars, validator, purge>>

ProbeNormalizeAgain ==
    /\ Len(probe.out) = 1
    /\ probe' = [probe EXCEPT !.out = Append(@, ProbeApply(probe.fn, probe.out[1]))]
    /\ UNCHANGED <<importerVars, validator, purge>>

NextHandle == ProbeNormalize \/ ProbeNormalizeAgain

SpecHandle == InitHandle /\ [][NextHandle]_vars

----------------------------------------------------------------------------
(* The field-normalizer harness: parse_timestamp, parse_ts,                *)
(* normalize_run_mode, parse_int and get_first applied to their inputs,    *)
(* alone and inside the importers that call them.                          *)

\* Timestamp texts: three local date-times, each with no offset, "Z" and
\* three explicit offsets, one padded with spaces, and unreadable values.
TimestampTexts ==
    {JStr(<<l>> \o z) :
        l \in {"2024-01-01T00:00:00", "2024-01-01T05:00:00", "2024-01-02T00:00:00"},
        z \in {<<>>, <<"Z">>, <<"+00:00">>, <<"+05:00">>, <<"-03:00">>}}
    \cup {JStr(<<" ", "2024-01-01T05:00:00", "+05:00", " ">>), TBad, JStr(<<>>), Null}

ModeTexts ==
    {JStr(<<"r","e","f","r","e","s","h","-","2","4","h">>),
     JStr(<<"r","e","f","r","e","s","h","_","2","4","h">>),
     JStr(<<"r","e","f","r","e","s","h","2","4","h">>),
     JStr(<<"R","e","f","r","e","s","h","-","2","4","H">>),
     JStr(<<" ","R","E","F","R","E","S","H","_","2","4","H"," ">>),
     JStr(<<"r","e","f","r","e","s","h"," ","2","4","h">>),
     JStr(<<"m","a","n","u","a","l">>),
     JStr(<<" ","M","a","n","u","a","l">>),
     JStr(<<"b","o","t","h">>),
     JStr(<<"p","r","i","o","r","i","t","y">>),
     JStr(<<"d","i","s","c","o","v","e","r","y">>),
     JStr(<<"w","e","e","k","l","y">>),
     JStr(<<>>), JInt(5), Null}

\* Values a decoded JSON row can hold under a count field.
IntInputs ==
    {Null, JStr(<<>>), JInt(5), JInt(0 - 2), JBool(TRUE), JStr(<<"1","0">>),
     JStr(<<" ","-","3"," ">>), JStr(<<"a","b">>), JStr(<<"1",".","5">>),
     JFloat("half", 3), NaN, Infinity, JList(<<1, 2>>), JDict}

\* Rows that hold any of the two aliases of a post's repost count.
AliasRows ==
    UNION {[S -> {JInt(3), JInt(7), Null}] : S \in SUBSET {"reposts", "retweets"}}

AliasOrders == {<<"reposts", "retweets">>, <<"retweets", "reposts">>, <<"retweets">>}

TimestampProbes ==
    {[fn |-> f, arg |-> <<x, y>>, out |-> <<>>] :
        f \in {"parse_timestamp", "parse_ts"}, x \in TimestampTexts, y \in TimestampTexts}

ModeProbes ==
    {[fn |-> f, arg |-> <<x, y>>, out |-> <<>>] :
        f \in {"normalize_run_mode", "pipeline_runs"}, x \in ModeTexts, y \in ModeTexts}

IntProbes ==
    {[fn |-> "parse_int", arg |-> <<x, JInt(d)>>, out |-> <<>>] :
        x \in IntInputs, d \in {0, 7}}

AliasProbes ==
    {[fn |-> "get_first", arg |-> <<r, k>>, out |-> <<>>] : r \in AliasRows, k \in AliasOrders}

PostsAliasProbes ==
    {[fn |-> "import_posts", arg |-> <<r>>, out |-> <<>>] : r \in AliasRows}

\* The natural key import_pipeline_runs sends for a run with the given
\* mode, None when it sends no row.
RunKey(mode) ==
    LET tried == pipeline_runs_row([run_at |-> T0Z, mode |-> mode,
                                    source |-> JStr(<<"c","r","o","n">>)])
    IN IF tried.kind = "upsert"
       THEN [t |-> "key", v |-> KeyOf("pipeline_runs", tried.values)]
       ELSE Null

\* The reposts value import_posts sends for a post with the given aliases.
StoredReposts(aliases) ==
    LET base == [status_id |-> JStr(<<"1">>), url |-> JStr(<<"u">>),
                 author_handle |-> JStr(<<"f","o","o">>),
                 discovered_at |-> T0Z, last_seen_at |-> T0Z]
        tried == posts_row([k \in DOMAIN base \cup DOMAIN aliases |->
                               IF k \in DOMAIN aliases THEN aliases[k] ELSE base[k]])
    IN IF tried.kind = "upsert" THEN tried.values.reposts ELSE Null

\* A result that may be a raised exception, as one value.
Outcome(r) == IF r.ok THEN [t |-> "ok", v |-> r.val] ELSE [t |-> "raise", v |-> r.err]

FieldApply(fn, arg) ==
    CASE fn = "parse_timestamp" ->
            [i \in 1..Len(arg) |-> Outcome(parse_timestamp(arg[i], FALSE))]
      [] fn = "parse_ts" -> [i \in 1..Len(arg) |-> Outcome(parse_ts(arg[i]))]
      [] fn = "normalize_run_mode" -> [i \in 1..Len(arg) |-> normalize_run_mode(arg[i])]
      [] fn = "pipeline_runs" -> [i \in 1..Len(arg) |-> RunKey(arg[i])]
      [] fn = "parse_int" -> <<Outcome(parse_int(arg[1], arg[2].v))>>
      [] fn = "get_first" -> <<get_first(arg[1], arg[2])>>
      [] fn = "import_posts" -> <<StoredReposts(arg[1])>>

InitFields ==
    /\ \/ probe \in TimestampProbes
       \/ probe \in ModeProbes
       \/ probe \in IntProbes
       \/ probe \in AliasProbes
       \/ probe \in PostsAliasProbes
    /\ files = FilesOf(<<>>)
    /\ run = 1
    /\ pc = "start"
    /\ idx = 0
    /\ counters = NewCounters
    /\ summary = NoSummary
    /\ rejectLog = <<>>
    /\ db = EmptyDb
    /\ last = LastNone
    /\ history = <<>>
    /\ env = EnvReady
    /\ validator = ValidatorIdle
    /\ purge = PurgeIdle

ProbeField ==
    /\ probe.fn \notin {"none", "import", "omit", "watch_accounts", "posts"}
    /\ probe.out = <<>>
    /\ probe' = [probe EXCEPT !.out = FieldApply(probe.fn, probe.arg)]
    /\ UNCHANGED <<importerVars, validator, purge>>

NextFields == ProbeField

SpecFields == InitFields /\ [][NextFields]_vars

----------------------------------------------------------------------------
(* The snapshot generator run any number of times, with post lines         *)
(* imported before, between and after its runs.                            *)

\* Post lines: two captures of post 1 that agree on both timestamps and
\* differ in the metrics, a later capture with a 24h refresh, a second post
\* and a line the importer rejects.
SnapshotPostLines ==
    {Obj([status_id |-> JStr(<<"1">>), url |-> JStr(<<"u">>), author_handle |-> JStr(<<"f","o","o">>),
          likes |-> JInt(10), discovered_at |-> T0Z, last_seen_at |-> T5naive]),
     Obj([status_id |-> JStr(<<"1">>), url |-> JStr(<<"u">>), author_handle |-> JStr(<<"f","o","o">>),
          likes |-> JInt(20), initial_likes |-> JInt(5), discovered_at |-> T0Z,
          last_seen_at |-> T5naive]),
     Obj([id |-> JInt(1), status_url |-> JStr(<<"v">>), handle |-> JStr(<<"f","o","o">>),
          likes_24h |-> JInt(4), refresh_24h_at |-> TDayZ, captured_at |-> T5plus5,
          seen_at |-> TDayZ]),
     Obj([status_id |-> JStr(<<"2">>), url |-> JStr(<<"u">>), author_handle |-> JStr(<<"b","a","r">>),
          discovered_at |-> T0Z, last_seen_at |-> T0Z]),
     Obj([status_id |-> JStr(<<"2">>), url |-> JStr(<<"u">>), author_handle |-> JStr(<<"b","a","r">>)])}

InitSnapshots ==
    /\ files = FilesOf(<<>>)
    /\ env = EnvReady
    /\ validator = ValidatorIdle
    /\ purge = PurgeIdle
    /\ run = 1
    /\ pc = "snapshots"
    /\ idx = 0
    /\ counters = NewCounters
    /\ summary = NoSummary
    /\ rejectLog = <<>>
    /\ db = EmptyDb
    /\ last = LastNone
    /\ history = <<>>
    /\ probe = ProbeIdle

\* import_posts handles one more line.
import_post_line ==
    /\ pc = "snapshots"
    /\ idx < MaxPostImports
    /\ \E line \in SnapshotPostLines :
          StoreRow("posts", idx + 1,
                   import_row("posts", idx + 1, line, counters, rejectLog, db["posts"]))

\* main() runs the generator on the posts table as it stands.
generate_snapshots ==
    /\ pc = "snapshots"
    /\ run <= MaxGeneratorRuns
    /\ LET d == derive_snapshots(db["posts"], db[SnapshotTable], SourceLabel)
       IN /\ db' = [db EXCEPT ![SnapshotTable] = d.rows]
          /\ summary' = [t \in {"derived_snapshots"} |-> d.results]
    /\ run' = run + 1
    /\ last' = [run |-> run, table |-> SnapshotTable, index |-> 0, outcome |-> "derived",
                reason |-> ""]
    /\ UNCHANGED <<files, pc, idx, counters, rejectLog, history, probe, env, validator, purge>>

NextSnapshots == import_post_line \/ generate_snapshots

SpecSnapshots == InitSnapshots /\ [][NextSnapshots]_vars

----------------------------------------------------------------------------
(* validate_counts.py: the row counts and the spot check.                  *)

\* --sample-size, at its default.
DefaultSampleSize == 20

\* local_tables: the source table and the destination table it is
\* compared with.
local_tables ==
    [tweets |-> "posts", reports |-> "reports", watch_accounts |-> "watch_accounts",
     runs |-> "pipeline_runs", tweet_embeddings |-> "embeddings"]

\* SELECT COUNT(*) FROM table, in the source and in the destination.
count_sqlite(sqlite, table) ==
    IF table = "tweets" THEN Cardinality(DOMAIN sqlite.tweets) ELSE sqlite.counts[table]

count_postgres(pg, table) ==
    IF table = "posts" THEN Cardinality(DOMAIN pg.posts) ELSE pg.counts[table]

\* pick_field(row, *keys): the value of the first column the row has.
pick_field(row, keys) == get_first(row, keys)

\* The checks list of compare_random_posts for one post, and the names of
\* the fields whose two values differ.
post_checks(local, remote) ==
    <<[field |-> "url",
       local |-> pick_field(local, <<"url", "status_url", "tweet_url">>),
       postgres |-> remote.url],
      [field |-> "author_handle",
       local |-> normalize_handle(
                    pick_field(local, <<"author_handle", "handle", "author", "username">>)),
       postgres |-> normalize_handle(remote.author_handle)],
      [field |-> "body_text",
       local |-> pick_field(local, <<"body_text", "text", "tweet_text", "content">>),
       postgres |-> remote.body_text],
      [field |-> "is_significant",
       local |-> JBool(Truthy(pick_field(local, <<"is_significant", "significant">>))),
       postgres |-> JBool(Truthy(remote.is_significant))],
      [field |-> "discovered_at",
       local |-> parse_ts(pick_field(local, <<"discovered_at", "captured_at", "created_at">>)).val,
       postgres |-> IF IsNull(remote.discovered_at) THEN Null
                    ELSE isoformat(remote.discovered_at)]>>

differing_fields(checks) ==
    {checks[i].field : i \in {i \in DOMAIN checks : checks[i].local # checks[i].postgres}}

\* Every subset of S with k elements.
RECURSIVE KSubsets(_, _)
KSubsets(S, k) ==
    IF k = 0 THEN {{}}
    ELSE IF Cardinality(S) <= k THEN {S}
    ELSE LET x == CHOOSE y \in S : TRUE
         IN KSubsets(S \ {x}, k) \cup {T \cup {x} : T \in KSubsets(S \ {x}, k - 1)}

Max(a, b) == IF a >= b THEN a ELSE b

\* The status ids compare_random_posts may end up checking: all of them,
\* or any random.sample of sample_size of them.
sampled_ids(sqlite, sample_size) ==
    IF Max(sample_size, 0) = 0 THEN {{}}
    ELSE KSubsets(DOMAIN sqlite.tweets, Max(sample_size, 0))

\* compare_random_posts that passes over a post the destination lacks.
compare_random_posts_missing_unrecorded(sqlite, pg, sample_size, ids) ==
    [requested |-> Max(sample_size, 0),
     checked |-> Cardinality(ids),
     missing_in_pg |-> {},
     mismatches |->
        {c \in {[status_id |-> i,
                 fields |-> differing_fields(post_checks(sqlite.tweets[i], pg.posts[i]))] :
                    i \in ids \cap DOMAIN pg.posts} : c.fields # {}}]

\* compare_random_posts(sqlite_con, pg_cur, sample_size) once ids is drawn;
\* the two lists are kept as sets, their order being that of the draw.
compare_random_posts(sqlite, pg, sample_size, ids) ==
    [requested |-> Max(sample_size, 0),
     checked |-> Cardinality(ids),
     missing_in_pg |-> {i \in ids : i \notin DOMAIN pg.posts},
     mismatches |->
        {c \in {[status_id |-> i,
                 fields |-> differing_fields(post_checks(sqlite.tweets[i], pg.posts[i]))] :
                    i \in ids \cap DOMAIN pg.posts} : c.fields # {}}]

\* A row of the source's tweets table.
LocalPost(i) ==
    [status_id |-> JStr(NatStr(i)), url |-> JStr(<<"u">>), author_handle |-> JStr(<<"@","F","o","o">>),
     body_text |-> JStr(<<"b">>), is_significant |-> JInt(1), discovered_at |-> T0Z,
     last_seen_at |-> T5naive]

\* Other values of the compared columns.
OtherValues ==
    [url |-> JStr(<<"v">>), author_handle |-> JStr(<<"b","a","r">>), body_text |-> Null,
     is_significant |-> JInt(0), discovered_at |-> TDayZ]

\* The same row with the other value in every compared column.
OtherPost ==
    [k \in DOMAIN LocalPost(1) |->
        IF k \in DOMAIN OtherValues THEN OtherValues[k] ELSE LocalPost(1)[k]]

\* The posts row the importer stores for an exported tweets row.
Imported(row) == posts_row(row).values

ImportedPosts == [same |-> Imported(LocalPost(1)), other |-> Imported(OtherPost)]

\* What can be wrong with the destination's posts: nothing, one post
\* absent, or post 1 imported from a row with another value in one column.
PostDefects(n) ==
    {[kind |-> "none", post |-> 0, field |-> ""]}
    \cup {[kind |-> "missing", post |-> i, field |-> ""] : i \in 1..n}
    \cup {[kind |-> "differs", post |-> 1, field |-> f] :
             f \in {g \in DOMAIN OtherValues : n > 0}}

\* What can be wrong with the other tables: nothing, a report the
\* destination lacks, an embedding the source lacks.
CountDefects == {"none", "reports", "tweet_embeddings"}

SampleSizes == {DefaultSampleSize, 1, 0, 0 - 1}

SourceOf(n, c) ==
    [tweets |-> [i \in 1..n |-> LocalPost(i)],
     counts |-> [t \in DOMAIN local_tables \ {"tweets"} |-> IF t = c /\ t = "reports" THEN 2 ELSE 1]]

DestinationOf(n, d, c) ==
    [posts |-> [i \in {j \in 1..n : ~(d.kind = "missing" /\ d.post = j)} |->
                  IF d.kind = "differs" /\ d.post = i
                  THEN [ImportedPosts.same EXCEPT !.status_id = JStr(NatStr(i)),
                                                  ![d.field] = ImportedPosts.other[d.field]]
                  ELSE [ImportedPosts.same EXCEPT !.status_id = JStr(NatStr(i))]],
     counts |-> [t \in {local_tables[u] : u \in DOMAIN local_tables \ {"tweets"}}
                       \cup {SnapshotTable} |->
                   IF t = "embeddings" /\ c = "tweet_embeddings" THEN 2 ELSE 1]]

ValidatorStart(exists, k, sqlite, pg) ==
    [pc |-> "start", sqlite_exists |-> exists, sample_size |-> k, sqlite |-> sqlite, pg |-> pg,
     counts |-> <<>>, ids |-> {}, spot_check |-> <<>>, exit |-> 0]

ValidatorInputs ==
    UNION {{ValidatorStart(TRUE, k, SourceOf(n, c), DestinationOf(n, d, c)) :
               k \in SampleSizes, d \in PostDefects(n), c \in CountDefects} : n \in 0..MaxPosts}
    \cup {ValidatorStart(FALSE, DefaultSampleSize, SourceOf(0, "none"),
                         DestinationOf(0, [kind |-> "none", post |-> 0, field |-> ""], "none"))}

InitValidator ==
    /\ validator \in ValidatorInputs
    /\ purge = PurgeIdle
    /\ files = FilesOf(<<>>)
    /\ env = EnvReady
    /\ run = 1
    /\ pc = "start"
    /\ idx = 0
    /\ counters = NewCounters
    /\ summary = NoSummary
    /\ rejectLog = <<>>
    /\ db = EmptyDb
    /\ last = LastNone
    /\ history = <<>>
    /\ probe = ProbeIdle

\* main(): the SQLite snapshot does not exist.
snapshot_not_found ==
    /\ validator.pc = "start"
    /\ ~validator.sqlite_exists
    /\ validator' = [validator EXCEPT !.pc = "exit", !.exit = 1]
    /\ UNCHANGED <<importerVars, probe, purge>>

\* main(): report["counts"], table by table, and the snapshot table's
\* destination count.
count_tables ==
    /\ validator.pc = "start"
    /\ validator.sqlite_exists
    /\ validator' =
         [validator EXCEPT
            !.pc = "spot_check",
            !.counts =
               [t \in DOMAIN local_tables \cup {SnapshotTable} |->
                  IF t = SnapshotTable
                  THEN [sqlite |-> Null, postgres |-> JInt(count_postgres(validator.pg, t)),
                        delta |-> Null]
                  ELSE [sqlite |-> JInt(count_sqlite(validator.sqlite, t)),
                        postgres |-> JInt(count_postgres(validator.pg, local_tables[t])),
                        delta |-> JInt(count_postgres(validator.pg, local_tables[t])
                                       - count_sqlite(validator.sqlite, t))]]]
    /\ UNCHANGED <<importerVars, probe, purge>>

\* The value main() returns for a spot check.
exit_status(spot_check) ==
    IF spot_check.mismatches # {} \/ spot_check.missing_in_pg # {} THEN 2 ELSE 0

\* main(): report["spot_check"], the report is printed and main returns.
spot_check_and_return ==
    /\ validator.pc = "spot_check"
    /\ \E ids \in sampled_ids(validator.sqlite, validator.sample_size) :
          LET checked == compare_random_posts(validator.sqlite, validator.pg,
                                              validator.sample_size, ids)
          IN validator' = [validator EXCEPT !.pc = "exit", !.ids = ids, !.spot_check = checked,
                                            !.exit = exit_status(checked)]
    /\ UNCHANGED <<importerVars, probe, purge>>

NextValidator == snapshot_not_found \/ count_tables \/ spot_check_and_return

SpecValidator == InitValidator /\ [][NextValidator]_vars

----------------------------------------------------------------------------
(* A migration: export_sqlite.py writes the source's tables, the importer  *)
(* loads them into an empty destination, validate_counts.py compares.      *)

\* json.dumps(dict(row)) as json.loads gives it back: each SQLite storage
\* class becomes the JSON value of the same kind.
export_row(row) ==
    [c \in DOMAIN row |->
        CASE row[c].t = "null" -> Null
          [] row[c].t = "int"  -> JInt(row[c].v)
          [] row[c].t = "str"  -> JStr(row[c].v)
          [] OTHER             -> row[c]]

\* export_table(connection, table, out_file): one line per row, in order.
export_table(rows) == [i \in DOMAIN rows |-> [kind |-> "obj", row |-> export_row(rows[i])]]

\* The source table each of the importer's files is exported from.
SqliteTable(t) == CHOOSE s \in DOMAIN local_tables : local_tables[s] = t

\* Values the compared columns of a tweets row may hold.
TweetValues ==
    [url |-> {JStr(<<"u">>), JStr(<<" ", "u", " ">>)},
     author_handle |-> {JStr(<<"@", "F", "o", "o">>), JStr(<<"@", " ", "a">>)},
     body_text |-> {JStr(<<"b">>), Null, JStr(<<" ", "b">>)},
     is_significant |-> {JInt(1), JInt(0), Null, JStr(<<"0">>), JStr(<<"y", "e", "s">>),
                         JStr(<<"f", "a", "l", "s", "e">>), JStr(<<"m", "a", "y", "b", "e">>)},
     discovered_at |-> {T0Z, T5plus5, T5naive, TBad},
     status_id |-> {}]

\* The rows post i may be in the source: LocalPost(i) with one column at
\* another value, or with a space before its status id.
TweetRows(i) ==
    {[LocalPost(i) EXCEPT !.status_id = JStr(<<" ">> \o NatStr(i))]}
    \cup UNION {{[LocalPost(i) EXCEPT ![c] = v] : v \in TweetValues[c]} : c \in DOMAIN TweetValues}

\* A source database: its tweets, and one row in each other table.
MigrationSource(tweets) ==
    [tweets |-> tweets,
     reports |-> <<[status_id |-> JStr(<<"1">>), reported_at |-> T0Z, channel |-> JStr(<<"c">>)]>>,
     watch_accounts |-> <<[handle |-> JStr(<<"f", "o", "o">>),
                           tier |-> JStr(<<"t", "e", "a", "m", "m", "a", "t", "e">>),
                           added_at |-> T0Z]>>,
     runs |-> <<[run_at |-> T0Z, mode |-> JStr(<<"m", "a", "n", "u", "a", "l">>)]>>,
     tweet_embeddings |-> <<[status_id |-> JStr(<<"1">>), backend |-> JStr(<<"b">>),
                             model |-> JStr(<<"m">>), text_hash |-> JStr(<<"h">>),
                             created_at |-> T0Z, updated_at |-> T0Z,
                             vector_json |-> JStr(<<"[", "1", "]">>), dims |-> JInt(1)]>>]

MigrationSources ==
    {MigrationSource(tweets) :
        tweets \in UNION {{t \in [1..n -> UNION {TweetRows(i) : i \in 1..n}] :
                             \A i \in 1..n : t[i] \in TweetRows(i)} : n \in 0..MaxSourceRows}}

\* The source as the validator's queries see it: tweets by str(status_id).
SqliteOf(source) ==
    [tweets |-> [k \in {PyStr(source.tweets[i].status_id) : i \in DOMAIN source.tweets} |->
                   source.tweets[CHOOSE i \in DOMAIN source.tweets :
                                     PyStr(source.tweets[i].status_id) = k]],
     counts |-> [t \in DOMAIN local_tables \ {"tweets"} |-> Len(source[t])]]

\* The destination as the validator's queries see it: posts by status_id.
PostgresOf(d) ==
    [posts |-> [k \in {key[1].v : key \in DOMAIN d["posts"]} |-> d["posts"][<<JStr(k)>>]],
     counts |-> [t \in {local_tables[u] : u \in DOMAIN local_tables \ {"tweets"}}
                       \cup {SnapshotTable} |->
                   IF t = SnapshotTable THEN Len(d[t]) ELSE Cardinality(DOMAIN d[t])]]

InitMigration ==
    /\ validator \in {[pc |-> "export", source |-> s] : s \in MigrationSources}
    /\ purge = PurgeIdle
    /\ files = FilesOf(<<>>)
    /\ env = EnvReady
    /\ run = 1
    /\ pc = "idle"
    /\ idx = 0
    /\ counters = NewCounters
    /\ summary = NoSummary
    /\ rejectLog = <<>>
    /\ db = EmptyDb
    /\ last = LastNone
    /\ history = <<>>
    /\ probe = ProbeIdle

\* export_sqlite.py main(): every table is written to its file; the
\* importer is then started on the directory.
export_sqlite ==
    /\ validator.pc = "export"
    /\ pc = "idle"
    /\ files' = [t \in TableSet |-> export_table(validator.source[SqliteTable(t)])]
    /\ pc' = "start"
    /\ validator' = [validator EXCEPT !.pc = "import"]
    /\ UNCHANGED <<run, idx, counters, summary, rejectLog, db, last, history, probe, env, purge>>

\* validate_counts.py main() started once the importer has finished: the
\* snapshot exists, both databases are opened.
validate_counts ==
    /\ validator.pc = "import"
    /\ pc = "done"
    /\ \E k \in {DefaultSampleSize, 1} :
          validator' = ValidatorStart(TRUE, k, SqliteOf(validator.source), PostgresOf(db))
    /\ UNCHANGED <<importerVars, probe, purge>>

NextMigration ==
    \/ export_sqlite
    \/ open_reject_log
    \/ import_watch_accounts
    \/ import_posts
    \/ import_reports
    \/ import_pipeline_runs
    \/ import_embeddings
    \/ derive_and_finish
    \/ validate_counts
    \/ count_tables
    \/ spot_check_and_return

SpecMigration == InitMigration /\ [][NextMigration]_vars

----------------------------------------------------------------------------
(* omit_and_purge_handles.py: main() with the scheduler jobs paused around *)
(* its stages, any one of which may raise.                                 *)

\* The labels of LAUNCHD_JOBS.
LAUNCHD_JOBS == <<"com.openclaw.xmonitor.priority", "com.openclaw.xmonitor.discovery">>

\* The launchctl calls of pause_jobs, in the order it makes them.
PauseCalls ==
    [i \in 1..(2 * Len(LAUNCHD_JOBS)) |->
        [cmd |-> IF i % 2 = 1 THEN "disable" ELSE "bootout",
         label |-> LAUNCHD_JOBS[(i + 1) \div 2]]]

\* The stages of main()'s try block after the pausing, each with the flag
\* that has it run.
PurgeStages == <<"files", "local_purge", "remote_purge", "lambda">>

\* The five omit-list files main() updates.
OmitFiles ==
    <<"x_monitor_kb.py", "x_monitor_ingest_api.py", "index.mjs",
      "provision_vpc_api_lambda.sh", "README.md">>

StageRuns(stage, args) ==
    CASE stage = "files"        -> ~args.skip_file_updates
      [] stage = "local_purge"  -> ~args.skip_local_purge
      [] stage = "remote_purge" -> ~args.skip_remote_purge
      [] stage = "lambda"       -> args.update_lambda_env

\* The first stage from the n-th on whose flag has it run; the finally
\* clause when there is none.
RECURSIVE StageFrom(_, _)
StageFrom(n, args) ==
    IF n > Len(PurgeStages) THEN "finally"
    ELSE IF StageRuns(PurgeStages[n], args) THEN PurgeStages[n]
    ELSE StageFrom(n + 1, args)

StageAfter(stage, args) ==
    StageFrom((CHOOSE n \in DOMAIN PurgeStages : PurgeStages[n] = stage) + 1, args)

PurgeArgs ==
    [no_pause_jobs : BOOLEAN, skip_file_updates : BOOLEAN, skip_local_purge : BOOLEAN,
     skip_remote_purge : BOOLEAN, update_lambda_env : BOOLEAN]

\* The one place where something raises in a run: nowhere, the n-th
\* launchctl call of pause_jobs, the n-th file update, or a later stage.
PurgeFaults ==
    {[at |-> "none", n |-> 0]}
    \cup {[at |-> "pause", n |-> i] : i \in DOMAIN PauseCalls}
    \cup {[at |-> "files", n |-> i] : i \in DOMAIN OmitFiles}
    \cup {[at |-> a, n |-> 1] : a \in {"local_purge", "remote_purge", "lambda"}}

InitPurge ==
    /\ purge \in {[pc |-> "start", args |-> a, fault |-> f, calls |-> 0, updated |-> 0,
                   paused |-> FALSE, disabled |-> {}, booted_out |-> {},
                   pause_jobs |-> FALSE, resume_jobs |-> FALSE, raised |-> FALSE,
                   printed |-> FALSE] : a \in PurgeArgs, f \in PurgeFaults}
    /\ validator = ValidatorIdle
    /\ files = FilesOf(<<>>)
    /\ env = EnvReady
    /\ run = 1
    /\ pc = "start"
    /\ idx = 0
    /\ counters = NewCounters
    /\ summary = NoSummary
    /\ rejectLog = <<>>
    /\ db = EmptyDb
    /\ last = LastNone
    /\ history = <<>>
    /\ probe = ProbeIdle

Raises(stage, n) == purge.fault.at = stage /\ purge.fault.n = n

\* main() enters the try block: pause_jobs is called unless --no-pause-jobs.
enter_try ==
    /\ purge.pc = "start"
    /\ purge' = IF purge.args.no_pause_jobs
                THEN [purge EXCEPT !.pc = StageFrom(1, purge.args)]
                ELSE [purge EXCEPT !.pc = "pause", !.pause_jobs = TRUE]
    /\ UNCHANGED <<importerVars, probe, validator>>

\* paused = True once pause_jobs has returned.
set_paused(p) == [p EXCEPT !.paused = TRUE, !.pc = StageFrom(1, p.args)]

\* pause_jobs(): its next launchctl call, which disables or boots out a
\* job or raises; after the last call pause_jobs returns and main() sets
\* paused.
pause_jobs ==
    /\ purge.pc = "pause"
    /\ LET n == purge.calls + 1
           call == PauseCalls[n]
           made == [purge EXCEPT
                      !.calls = n,
                      !.disabled = IF call.cmd = "disable" THEN @ \cup {call.label} ELSE @,
                      !.booted_out = IF call.cmd = "bootout" THEN @ \cup {call.label} ELSE @]
       IN purge' = IF Raises("pause", n)
                   THEN [purge EXCEPT !.pc = "finally", !.raised = TRUE]
                   ELSE IF n = Len(PauseCalls) THEN set_paused(made)
                   ELSE made
    /\ UNCHANGED <<importerVars, probe, validator>>

\* main(): the next of the five file updates.
update_omit_file ==
    /\ purge.pc = "files"
    /\ LET n == purge.updated + 1
       IN purge' = IF Raises("files", n)
                   THEN [purge EXCEPT !.pc = "finally", !.raised = TRUE]
                   ELSE [purge EXCEPT !.updated = n,
                                      !.pc = IF n = Len(OmitFiles)
                                             THEN StageAfter("files", purge.args)
                                             ELSE "files"]
    /\ UNCHANGED <<importerVars, probe, validator>>

\* main(): purge_local_sqlite, the remote purge (which raises when there
\* is no API key) or update_lambda_omit_handles.
purge_stage(stage) ==
    /\ purge.pc = stage
    /\ purge' = IF Raises(stage, 1)
                THEN [purge EXCEPT !.pc = "finally", !.raised = TRUE]
                ELSE [purge EXCEPT !.pc = StageAfter(stage, purge.args)]
    /\ UNCHANGED <<importerVars, probe, validator>>

purge_local_sqlite == purge_stage("local_purge")

purge_remote == purge_stage("remote_purge")

update_lambda_omit_handles == purge_stage("lambda")

\* The finally clause: resume_jobs() when paused is set.
finally_clause(p) ==
    IF p.paused THEN [p EXCEPT !.resume_jobs = TRUE, !.disabled = {}, !.booted_out = {}]
    ELSE p

\* main() leaves the try block through finally, then prints the summary and
\* returns 0, or the exception goes on to the handler at the bottom.
leave_try ==
    /\ purge.pc = "finally"
    /\ purge' = [finally_clause(purge) EXCEPT !.pc = "exit", !.printed = ~purge.raised]
    /\ UNCHANGED <<importerVars, probe, validator>>

NextPurge ==
    \/ enter_try
    \/ pause_jobs
    \/ update_omit_file
    \/ purge_local_sqlite
    \/ purge_remote
    \/ update_lambda_omit_handles
    \/ leave_try

SpecPurge == InitPurge /\ [][NextPurge]_vars

----------------------------------------------------------------------------
(* omit_and_purge_handles.py: the omit lists and the files that hold them. *)
(* A text is a sequence of characters; the fixed texts the patterns match  *)
(* are kept as one element each.                                           *)

Range(seq) == {seq[i] : i \in DOMAIN seq}

\* re.split(r"[,\s]+", text), without the empty strings it yields at the
\* ends of the text; cur is the token being read.
RECURSIVE re_split(_, _)
re_split(text, cur) ==
    IF text = <<>> THEN (IF cur = <<>> THEN <<>> ELSE <<cur>>)
    ELSE IF Head(text) = "," \/ IsSpace(Head(text))
    THEN (IF cur = <<>> THEN <<>> ELSE <<cur>>) \o re_split(Tail(text), <<>>)
    ELSE re_split(Tail(text), Append(cur, Head(text)))

\* The inner loop of parse_handles: the tokens of one value.
RECURSIVE parse_tokens(_, _)
parse_tokens(ordered, tokens) ==
    IF tokens = <<>> THEN ordered
    ELSE LET handle == omit_normalize_handle(JStr(Head(tokens))).v
         IN parse_tokens(IF handle = <<>> \/ handle \in Range(ordered) THEN ordered
                         ELSE Append(ordered, handle),
                         Tail(tokens))

\* parse_handles(values), from the handles found so far.
RECURSIVE parse_values(_, _)
parse_values(ordered, values) ==
    IF values = <<>> THEN ordered
    ELSE parse_values(parse_tokens(ordered, re_split(Strip(Head(values)), <<>>)), Tail(values))

parse_handles(values) == parse_values(<<>>, values)

parse_csv_handles(text) == parse_handles(<<text>>)

\* merged_handles(existing, additions).
RECURSIVE merged_handles(_, _)
merged_handles(existing, additions) ==
    IF additions = <<>> THEN existing
    ELSE merged_handles(IF Head(additions) \in Range(existing) THEN existing
                        ELSE Append(existing, Head(additions)),
                        Tail(additions))

\* sep.join(handles).
RECURSIVE Join(_, _)
Join(handles, sep) ==
    IF handles = <<>> THEN <<>>
    ELSE IF Len(handles) = 1 THEN handles[1]
    ELSE handles[1] \o sep \o Join(Tail(handles), sep)

\* The texts the pattern of update_local_omit_python takes as groups 1 and
\* 3, and those around the array of update_server_omit_array.
OmitDefaultOpen ==
    "DEFAULT_INGEST_OMIT_HANDLES_RAW = os.getenv(\"XMONITOR_INGEST_OMIT_HANDLES\", \""

OmitDefaultClose == "\")"

OmitArrayOpen == "const DEFAULT_INGEST_OMIT_HANDLES = ["

OmitArrayClose == "];"

\* The characters chr(64) to chr(127).
Ascii64 ==
    <<"@","A","B","C","D","E","F","G","H","I","J","K","L","M","N","O",
      "P","Q","R","S","T","U","V","W","X","Y","Z","[","\\","]","^","_",
      "GRAVE","a","b","c","d","e","f","g","h","i","j","k","l","m","n","o",
      "p","q","r","s","t","u","v","w","x","y","z","{","|","}","~","DEL">>

IsOctDigit(c) == IsDigit(c) /\ DigitValue(c) < 8

\* The replacement template (group 1, middle, group 3) expanded by re: a
\* digit after the reference to group 1 is read as part of the escape, which is then an octal character
\* (two octal digits follow) or the number of a group that does not exist.
expand_template(group1, middle, group3) ==
    IF middle # <<>> /\ IsDigit(middle[1])
    THEN IF IsOctDigit(middle[1]) /\ Len(middle) >= 2 /\ IsOctDigit(middle[2])
         THEN Ok(<<Ascii64[8 * DigitValue(middle[1]) + DigitValue(middle[2]) + 1]>>
                 \o SubSeq(middle, 3, Len(middle)) \o <<group3>>)
         ELSE Raise("invalid group reference")
    ELSE Ok(<<group1>> \o middle \o <<group3>>)

\* Where the text holds the given element first; 0 when it does not.
Find(text, c) ==
    IF c \in Range(text) THEN CHOOSE i \in DOMAIN text : text[i] = c /\ c \notin Range(SubSeq(text, 1, i - 1))
    ELSE 0

\* The result of a file update, and the file as the update leaves it.
Updated(text, changed, handles) ==
    Ok([file |-> text, changed |-> changed, handles |-> handles])

\* update_local_omit_python(path, additions) on a file with the given text.
update_local_omit_python(text, additions) ==
    LET open == Find(text, OmitDefaultOpen)
        close == Find(text, OmitDefaultClose)
    IN IF open = 0 \/ close < open THEN Raise("could not find omit default")
       ELSE LET merged == merged_handles(parse_csv_handles(SubSeq(text, open + 1, close - 1)),
                                         additions)
                repl == expand_template(OmitDefaultOpen, Join(merged, <<",">>), OmitDefaultClose)
            IN IF ~repl.ok THEN repl
               ELSE LET updated == SubSeq(text, 1, open - 1) \o repl.val
                                     \o SubSeq(text, close + 1, Len(text))
                    IN Updated(updated, updated # text, merged)

\* re.findall(r'"([^"]+)"', text).
RECURSIVE findall_quoted(_)
findall_quoted(text) ==
    IF text = <<>> THEN <<>>
    ELSE IF Head(text) # "\"" THEN findall_quoted(Tail(text))
    ELSE LET rest == Tail(text)
             n == Find(rest, "\"")
         IN IF n > 1
            THEN <<SubSeq(rest, 1, n - 1)>> \o findall_quoted(SubSeq(rest, n + 1, Len(rest)))
            ELSE findall_quoted(rest)

\* The lines of the array block, one per handle.
RECURSIVE array_lines(_)
array_lines(handles) ==
    IF handles = <<>> THEN <<>>
    ELSE <<" ", " ", "\"">> \o Head(handles) \o <<"\"", ",", "\n">> \o array_lines(Tail(handles))

\* update_server_omit_array(path, additions) on a file with the given text.
update_server_omit_array(text, additions) ==
    LET open == Find(text, OmitArrayOpen)
        close == Find(text, OmitArrayClose)
    IN IF open = 0 \/ close < open THEN Raise("could not find DEFAULT_INGEST_OMIT_HANDLES")
       ELSE LET merged == merged_handles(findall_quoted(SubSeq(text, open + 1, close - 1)),
                                         additions)
                updated == SubSeq(text, 1, open - 1)
                             \o <<OmitArrayOpen, "\n">> \o array_lines(merged) \o <<OmitArrayClose>>
                             \o SubSeq(text, close + 1, Len(text))
            IN Updated(updated, updated # text, merged)

\* Handles as they are typed and as files hold them.
OmitWords == {<<"a">>, <<"B">>, <<"@", "b">>, <<"5", "0">>, <<"5", "a">>}

OmitLists == UNION {[1..n -> OmitWords] : n \in 0..MaxOmitHandles}

\* A Python file whose omit default holds the list, and a server file
\* whose array holds it.
PythonFile(list, sep) ==
    <<"#", "\n", OmitDefaultOpen>> \o Join(list, sep) \o <<OmitDefaultClose, "\n">>

ServerFile(list, sep) ==
    <<"/", "/", "\n", OmitArrayOpen>>
    \o Join([i \in DOMAIN list |-> <<"\"">> \o list[i] \o <<"\"">>], sep)
    \o <<OmitArrayClose, "\n">>

OmitProbes ==
    {[fn |-> "merged_handles", arg |-> <<e, a>>, out |-> <<>>] :
        e \in OmitLists, a \in OmitLists}
    \cup {[fn |-> "update_local_omit_python", arg |-> <<PythonFile(e, sep), a>>, out |-> <<>>] :
            e \in OmitLists, a \in OmitLists \ {<<>>}, sep \in {<<",">>, <<",", " ">>}}
    \cup {[fn |-> "update_server_omit_array", arg |-> <<ServerFile(e, sep), a>>, out |-> <<>>] :
            e \in OmitLists, a \in OmitLists \ {<<>>}, sep \in {<<",">>, <<",", " ">>}}

\* One application of the function under the probe to the list or file the
\* previous application left, with the same handles.
OmitApply(fn, current, additions) ==
    CASE fn = "merged_handles" -> Updated(merged_handles(current, additions), FALSE, <<>>)
      [] fn = "update_local_omit_python" ->
            update_local_omit_python(current, parse_handles(additions))
      [] fn = "update_server_omit_array" ->
            update_server_omit_array(current, parse_handles(additions))

\* What the next application finds: what the last successful one left.
RECURSIVE CurrentOf(_, _)
CurrentOf(first, out) ==
    IF out = <<>> THEN first
    ELSE IF out[Len(out)].ok THEN out[Len(out)].val.file
    ELSE CurrentOf(first, SubSeq(out, 1, Len(out) - 1))

InitOmit ==
    /\ probe \in OmitProbes
    /\ purge = PurgeIdle
    /\ validator = ValidatorIdle
    /\ files = FilesOf(<<>>)
    /\ env = EnvReady
    /\ run = 1
    /\ pc = "start"
    /\ idx = 0
    /\ counters = NewCounters
    /\ summary = NoSummary
    /\ rejectLog = <<>>
    /\ db = EmptyDb
    /\ last = LastNone
    /\ history = <<>>

ProbeOmit ==
    /\ probe.fn \in {"merged_handles", "update_local_omit_python", "update_server_omit_array"}
    /\ Len(probe.out) < 2
    /\ probe' = [probe EXCEPT
                   !.out = Append(@, OmitApply(probe.fn, CurrentOf(probe.arg[1], probe.out),
                                               probe.arg[2]))]
    /\ UNCHANGED <<importerVars, validator, purge>>

NextOmit == ProbeOmit

SpecOmit == InitOmit /\ [][NextOmit]_vars

----------------------------------------------------------------------------
(* Properties.  Vocabulary shared by the statements below.                 *)

\* The line the importer in progress reads next.
CurLine(t) == files[t][idx + 1]

\* A step of table t's loop that consumes one line and stays in the loop.
StepOn(t) == pc = t /\ pc' = t /\ idx < Len(files[t]) /\ idx' = idx + 1

\* Such a step on a line that holds a row (not an empty line).
RowStep(t) == StepOn(t) /\ CurLine(t).kind # "blank"

\* The tables whose counters main() has stored.
TablesDone(s) == DOMAIN s \cap TableSet

NonBlank(lines) == Cardinality({i \in 1..Len(lines) : lines[i].kind # "blank"})

\* The aliases of each table's required timestamps.
TimestampAliases(t) ==
    CASE t = "watch_accounts" -> {<<"added_at", "created_at", "updated_at">>}
      [] t = "posts"          -> {<<"discovered_at", "captured_at", "created_at">>,
                                  <<"last_seen_at", "updated_at", "seen_at">>}
      [] t = "reports"        -> {<<"reported_at", "created_at">>}
      [] t = "pipeline_runs"  -> {<<"run_at", "created_at", "timestamp">>}
      [] t = "embeddings"     -> {<<"created_at">>, <<"updated_at", "created_at">>}

TimestampAbsent(v) == IsNull(v) \/ IsEmptyStr(v)

\* A required timestamp of the row is absent or cannot be read.
BadTimestamp(t, row) ==
    \E keys \in TimestampAliases(t) : ~parse_timestamp(get_first(row, keys), TRUE).ok

BlankField(row, keys) == str_or_empty(get_first(row, keys)) = <<>>

\* A required field other than a timestamp is absent or invalid.
MissingField(t, row) ==
    CASE t = "watch_accounts" ->
            \/ ~Truthy(normalize_handle(get_first(row, <<"handle", "author_handle">>)))
            \/ ~Truthy(normalize_tier(get_first(row, <<"tier", "watch_tier">>)))
      [] t = "posts" ->
            \/ BlankField(row, <<"status_id", "id">>)
            \/ BlankField(row, <<"url", "status_url", "tweet_url">>)
            \/ ~Truthy(normalize_handle(
                   get_first(row, <<"author_handle", "handle", "author", "username">>)))
      [] t = "reports" -> BlankField(row, <<"status_id">>)
      [] t = "pipeline_runs" -> ~Truthy(normalize_run_mode(get_first(row, <<"mode">>)))
      [] t = "embeddings" ->
            \/ BlankField(row, <<"status_id">>)
            \/ BlankField(row, <<"backend">>)
            \/ BlankField(row, <<"model">>)
            \/ BlankField(row, <<"text_hash">>)

\* The line holds a JSON object that fails required-field validation.
FailsValidation(t, line) ==
    line.kind = "obj" /\ (MissingField(t, line.row) \/ BadTimestamp(t, line.row))

\* The line holds a row that passes validation and that the driver can send.
Accepted(t, line) ==
    /\ line.kind = "obj"
    /\ row_values(t, line).kind = "upsert"
    /\ CanBind(row_values(t, line).values)

IncomingKey(t) == KeyOf(t, row_values(t, CurLine(t)).values)

IncomingValues(t) == row_values(t, CurLine(t)).values

Balanced(c) == c.received = c.inserted + c.updated + c.skipped + c.errors

----------------------------------------------------------------------------
\* C1: the counters every per-table importer returns satisfy
\* received = inserted + updated + skipped + errors, for every input file.
C1_CountersBalance == \A t \in TablesDone(summary) : Balanced(summary[t])

----------------------------------------------------------------------------
\* C2: a second run on the same input files against the destination the
\* first run left keeps every table's row count, reports inserted = 0 for
\* every table, and counts as updated every row the first run accepted.
C2_SecondRunIdempotent ==
    /\ (run >= 2 /\ pc \in TableSet) => counters.inserted = 0
    /\ (run >= 2 /\ pc # "start") =>
          [t \in TableSet |-> Cardinality(DOMAIN db[t])] =
          [t \in TableSet |-> history[run - 1].counts[t]]
    /\ \A i \in 2..Len(history) :
          /\ history[i].counts = history[i - 1].counts
          /\ DOMAIN history[i].summary = DOMAIN history[i - 1].summary
          /\ \A t \in TablesDone(history[i].summary) :
                LET now == history[i].summary[t]
                    before == history[i - 1].summary[t]
                IN /\ now.received = before.received
                   /\ now.inserted = 0
                   /\ now.updated = before.inserted + before.updated
                   /\ now.skipped = before.skipped
                   /\ now.errors = before.errors

\* The scenario: one watch_accounts line, imported twice.
C2_Witness ==
    /\ Len(history) = 2
    /\ history[1].status = "done" /\ history[2].status = "done"
    /\ Len(files["watch_accounts"]) = 1
    /\ history[1].summary["watch_accounts"] =
          [received |-> 1, inserted |-> 1, updated |-> 0, skipped |-> 0, errors |-> 0]
    /\ history[2].summary["watch_accounts"] =
          [received |-> 1, inserted |-> 0, updated |-> 1, skipped |-> 0, errors |-> 0]
    /\ history[2].counts["watch_accounts"] = 1

----------------------------------------------------------------------------
\* C3: one row's failure never aborts its table's import: no exception
\* leaves the per-table importer, and every line of the file that holds
\* something is received.
C3_RowFailureNeverAborts ==
    /\ pc # "crashed"
    /\ \A t \in TablesDone(summary) : summary[t].received = NonBlank(files[t])

----------------------------------------------------------------------------
\* C4: a row that fails required-field validation is never written: the
\* step that handles it leaves every destination table as it was and
\* counts neither an insert nor an update.
C4_InvalidRowNeverWritten ==
    [][\A t \in TableSet :
          (StepOn(t) /\ FailsValidation(t, CurLine(t))) =>
              /\ db' = db
              /\ counters'.inserted = counters.inserted
              /\ counters'.updated = counters.updated]_vars

\* A file whose first row was written and whose second row failed validation.
C4_Witness ==
    \E t \in TableSet :
        /\ last.table = t /\ last.run = run /\ last.index = 2
        /\ last.outcome \in {"skipped", "error"}
        /\ FailsValidation(t, files[t][2])
        /\ Cardinality(DOMAIN db[t]) = 1

----------------------------------------------------------------------------
\* C5: a row that is skipped or errored adds exactly one reject-log entry
\* with the table, the row's 1-based line number in its file, a reason and
\* the raw row; a row that is upserted adds none, and nothing else writes
\* to the log during a run.
C5_OneRejectEntryPerFailedRow ==
    [][/\ \A t \in TableSet :
             RowStep(t) =>
               LET failed == \/ counters'.skipped > counters.skipped
                             \/ counters'.errors > counters.errors
                   upserted == counters'.inserted + counters'.updated
                                 > counters.inserted + counters.updated
               IN /\ failed # upserted
                  /\ failed =>
                        /\ last'.reason # ""
                        /\ rejectLog' = Append(rejectLog,
                               [table |-> t, index |-> idx + 1,
                                reason |-> last'.reason, row |-> CurLine(t).row])
                  /\ upserted => rejectLog' = rejectLog
       /\ (pc # "start" /\ \A t \in TableSet : ~RowStep(t)) => rejectLog' = rejectLog]_vars

\* A rejected row on line 2 of a file whose line 1 is empty.
C5_Witness ==
    \E t \in TableSet :
        /\ pc = t /\ idx = 2
        /\ files[t][1].kind = "blank"
        /\ counters.received = 1
        /\ Len(rejectLog) = 1
        /\ rejectLog[1].table = t
        /\ rejectLog[1].index = 2
        /\ rejectLog[1].row = files[t][2].row

----------------------------------------------------------------------------
\* The tables whose loop parses the required timestamp before it checks
\* the other required fields.
TimestampFirst(t) == t \in {"watch_accounts", "reports", "pipeline_runs"}

\* The row takes the importer's skip branch: a required field other than a
\* timestamp is absent or invalid, and no timestamp parsed before that
\* check raises.
TakesSkipBranch(t, row) ==
    MissingField(t, row) /\ (TimestampFirst(t) => ~BadTimestamp(t, row))

\* The step adds one reject-log entry that holds the raw row and a reason.
LogsRawRow(row) ==
    /\ Len(rejectLog') = Len(rejectLog) + 1
    /\ rejectLog'[Len(rejectLog')].row = row
    /\ rejectLog'[Len(rejectLog')].reason # ""

\* C6 as stated: whenever any required field of a row is absent or invalid
\* (required timestamps included) the row is counted as skipped, logged
\* with its raw content and a reason, and the import continues.
C6_EveryInvalidRowCountedSkipped ==
    [][\A t \in TableSet :
          (StepOn(t) /\ FailsValidation(t, CurLine(t))) =>
              /\ counters'.skipped = counters.skipped + 1
              /\ LogsRawRow(CurLine(t).row)]_vars

\* C6, amended: a row that fails required-field validation is always
\* logged with its raw content and a reason and the import continues with
\* the next line; it is counted as skipped exactly when it takes the skip
\* branch, and otherwise (a required timestamp absent or unreadable) it is
\* counted under errors and skipped stays as it was.
C6_InvalidRowSkippedOrErrored ==
    [][\A t \in TableSet :
          (StepOn(t) /\ FailsValidation(t, CurLine(t))) =>
              /\ LogsRawRow(CurLine(t).row)
              /\ IF TakesSkipBranch(t, CurLine(t).row)
                 THEN counters'.skipped = counters.skipped + 1
                 ELSE /\ counters'.skipped = counters.skipped
                      /\ counters'.errors = counters.errors + 1]_vars

\* One file with a row that lacks a required field (skipped) followed by a
\* row that lacks only its required timestamp (errored, not skipped).
C6_Witness ==
    \E t \in TableSet :
        /\ pc = t /\ idx = 2
        /\ TakesSkipBranch(t, files[t][1].row)
        /\ files[t][2].kind = "obj"
        /\ ~MissingField(t, files[t][2].row)
        /\ BadTimestamp(t, files[t][2].row)
        /\ counters.skipped = 1
        /\ Len(rejectLog) = 2
        /\ last.outcome = "error"

----------------------------------------------------------------------------
\* A posts row with a status_id, a url and an author handle and no value
\* under any alias of discovered_at or of last_seen_at.
PostsRowWithoutTimestamps(line) ==
    /\ line.kind = "obj"
    /\ ~MissingField("posts", line.row)
    /\ \A keys \in TimestampAliases("posts") : TimestampAbsent(get_first(line.row, keys))

\* The row is rejected: not upserted, no insert or update counted, errors
\* incremented, one reject-log entry with the given reason.
PostsRowRejected(reason) ==
    /\ db' = db
    /\ counters'.inserted = counters.inserted
    /\ counters'.updated = counters.updated
    /\ counters'.errors = counters.errors + 1
    /\ rejectLog' = Append(rejectLog, [table |-> "posts", index |-> idx + 1,
                                       reason |-> reason, row |-> CurLine("posts").row])

\* C7 as stated: such a row is rejected with the reason 'missing required
\* timestamp'.
C7_RejectedAsMissingTimestamp ==
    [][(StepOn("posts") /\ PostsRowWithoutTimestamps(CurLine("posts"))) =>
          PostsRowRejected("missing required timestamp")]_vars

\* The count fields import_posts converts before refresh_24h_at, and the
\* ones it converts between refresh_24h_at and discovered_at.
CountsBeforeRefresh ==
    {<<"likes">>, <<"reposts", "retweets">>, <<"replies">>, <<"views">>,
     <<"initial_likes">>, <<"initial_reposts", "initial_retweets">>,
     <<"initial_replies">>, <<"initial_views">>, <<"likes_24h">>,
     <<"reposts_24h", "retweets_24h">>, <<"replies_24h">>, <<"views_24h">>}

CountsAfterRefresh ==
    {<<"refresh_24h_delta_likes">>,
     <<"refresh_24h_delta_reposts", "refresh_24h_delta_retweets">>,
     <<"refresh_24h_delta_replies">>, <<"refresh_24h_delta_views">>}

HoldsInfinity(row, fields) == \E keys \in fields : get_first(row, keys) = Infinity

\* C7, amended: such a row is always rejected (not upserted, errors
\* incremented, one reject-log entry); the reason is 'missing required
\* timestamp' provided the fields converted before discovered_at convert
\* (refresh_24h_at is absent or readable, no count is infinite), and
\* otherwise the text of the first of those failures.
C7_RejectedWithFirstFailure ==
    [][(StepOn("posts") /\ PostsRowWithoutTimestamps(CurLine("posts"))) =>
          LET refresh == parse_timestamp(get_first(CurLine("posts").row, <<"refresh_24h_at">>), FALSE)
          IN PostsRowRejected(
                 IF HoldsInfinity(CurLine("posts").row, CountsBeforeRefresh)
                 THEN "cannot convert float infinity to integer"
                 ELSE IF ~refresh.ok THEN refresh.err
                 ELSE IF HoldsInfinity(CurLine("posts").row, CountsAfterRefresh)
                 THEN "cannot convert float infinity to integer"
                 ELSE "missing required timestamp")]_vars

\* The scenario row, rejected as the first line of posts.
C7_Witness ==
    /\ pc = "posts" /\ idx = 1
    /\ PostsRowWithoutTimestamps(files["posts"][1])
    /\ last.outcome = "error"
    /\ last.reason = "missing required timestamp"
    /\ counters = [received |-> 1, inserted |-> 0, updated |-> 0, skipped |-> 0, errors |-> 1]
    /\ db["posts"] = EmptyTable

----------------------------------------------------------------------------
\* C8 as stated: an upsert whose key is already in the destination leaves,
\* in every table, the existing row equal to the incoming row's values.
C8_UpdateOverwritesEveryField ==
    [][\A t \in TableSet :
          (RowStep(t) /\ Accepted(t, CurLine(t)) /\ IncomingKey(t) \in DOMAIN db[t]) =>
              db'[t][IncomingKey(t)] = IncomingValues(t)]_vars

\* C8, amended: an upsert whose key is already in the destination
\* overwrites every non-key field of the existing row with the incoming
\* value, except created_at of embeddings, which keeps its stored value;
\* no other row of the table changes.
C8_UpdateOverwritesAllButCreatedAt ==
    [][\A t \in TableSet :
          (RowStep(t) /\ Accepted(t, CurLine(t)) /\ IncomingKey(t) \in DOMAIN db[t]) =>
              /\ DOMAIN db'[t] = DOMAIN db[t]
              /\ \A k \in DOMAIN db[t] \ {IncomingKey(t)} : db'[t][k] = db[t][k]
              /\ \A c \in DOMAIN IncomingValues(t) :
                    db'[t][IncomingKey(t)][c] =
                        IF t = "embeddings" /\ c = "created_at"
                        THEN db[t][IncomingKey(t)][c]
                        ELSE IncomingValues(t)[c]]_vars

\* An embedding imported twice for one status_id: the second line's
\* backend and updated_at are stored, the first line's created_at stays.
C8_Witness ==
    /\ last.table = "embeddings" /\ last.outcome = "updated"
    /\ \E k \in DOMAIN db["embeddings"] :
          /\ db["embeddings"][k].backend = JStr(<<"b", "2">>)
          /\ db["embeddings"][k].updated_at = DateTime(24, <<0>>)
          /\ db["embeddings"][k].created_at = DateTime(0, <<0>>)

----------------------------------------------------------------------------
\* C9: each successful upsert increments exactly one of inserted and
\* updated, and it is inserted if and only if the row's natural key was
\* not in the destination immediately before the upsert.
C9_InsertedIffKeyIsNew ==
    [][\A t \in TableSet :
          (RowStep(t) /\ Accepted(t, CurLine(t))) =>
              counters' = IF IncomingKey(t) \notin DOMAIN db[t]
                          THEN [counters EXCEPT !.received = @ + 1, !.inserted = @ + 1]
                          ELSE [counters EXCEPT !.received = @ + 1, !.updated = @ + 1]]_vars

\* Two different accepted lines of one file with the same normalized key:
\* one insert, then one update.
C9_Witness ==
    \E t \in TablesDone(summary) :
        /\ run = 1
        /\ Len(files[t]) = 2
        /\ files[t][1] # files[t][2]
        /\ summary[t] = [received |-> 2, inserted |-> 1, updated |-> 1,
                         skipped |-> 0, errors |-> 0]
        /\ Cardinality(DOMAIN db[t]) = 1

----------------------------------------------------------------------------
\* C10: handle normalization is idempotent, and inputs that differ only in
\* letter case or in a leading "@" normalize to the same value.
C10_NormalizeHandleIdempotent ==
    /\ (probe.fn \in {"import", "omit"} /\ Len(probe.out) = 2) => probe.out[2] = probe.out[1]
    /\ (probe.fn \in {"import", "omit"} /\ Len(probe.out) >= 1) =>
          /\ ProbeApply(probe.fn, JStr(Lower(probe.arg.v))) = probe.out[1]
          /\ ProbeApply(probe.fn, JStr(<<"@">> \o probe.arg.v)) = probe.out[1]

----------------------------------------------------------------------------
\* The text with every upper-case letter already lowered.
IsLowerCased(s) == Lower(s) = s

RECURSIVE AllAt(_)
AllAt(s) == s = <<>> \/ (Head(s) = "@" /\ AllAt(Tail(s)))

\* t is s with a run of leading "@" (and nothing else) taken off.
IsAtStripped(s, t) ==
    \E n \in 0..Len(s) : AllAt(SubSeq(s, 1, n)) /\ t = SubSeq(s, n + 1, Len(s))

\* The handle as the statement describes it: trimmed, one leading "@"
\* removed, lower-cased; None when nothing remains.
SingleAtHandle(text) ==
    LET trimmed == Strip(text)
        body == IF trimmed # <<>> /\ Head(trimmed) = "@" THEN Tail(trimmed) ELSE trimmed
    IN IF body = <<>> THEN Null ELSE JStr(Lower(body))

ProbedHandle == probe.fn \in {"import", "watch_accounts", "posts"} /\ Len(probe.out) >= 1

\* C11 as stated: normalize_handle returns the trimmed input with a single
\* leading "@" removed and lower-cased, absent when nothing remains, and
\* that is the handle stored in watch_accounts.handle and posts.author_handle.
C11_SingleAtRemoved ==
    ProbedHandle =>
        IF Truthy(SingleAtHandle(probe.arg.v))
        THEN probe.out[1] = SingleAtHandle(probe.arg.v)
        ELSE ~Truthy(probe.out[1])

\* C11, amended: normalize_handle trims the input, removes every leading
\* "@" and lower-cases; when nothing remains the handle is treated as
\* absent (None or the empty text, which no importer stores), so every
\* handle sent to watch_accounts.handle or posts.author_handle is
\* non-empty, lower-cased and does not begin with "@".
C11_EveryLeadingAtRemoved ==
    ProbedHandle =>
        LET out == probe.out[1]
        IN IF Truthy(out)
           THEN /\ out.t = "str"
                /\ IsLowerCased(out.v)
                /\ Head(out.v) # "@"
                /\ IsAtStripped(Lower(Strip(probe.arg.v)), out.v)
           ELSE /\ AllAt(Strip(probe.arg.v))
                /\ probe.fn # "import" => IsNull(out)

\* "@@A" stored as "a" by an importer: both leading "@" are gone.
C11_Witness ==
    /\ probe.fn \in {"watch_accounts", "posts"}
    /\ probe.arg = JStr(<<"@", "@", "A">>)
    /\ probe.out = <<JStr(<<"a">>)>>

----------------------------------------------------------------------------
\* The text is an ISO-8601 date-time the harness knows: a local date-time,
\* alone or followed by "Z" or an explicit offset.
IsIsoText(x) ==
    /\ x.t = "str"
    /\ LET c == Strip(x.v)
       IN /\ Len(c) \in {1, 2}
          /\ c[1] \in DOMAIN IsoLocal
          /\ Len(c) = 2 => c[2] \in DOMAIN IsoOffset \cup {"Z"}

\* The instant such a text denotes, in hours: no offset and "Z" mean UTC.
InstantOf(x) ==
    LET c == Strip(x.v)
    IN IsoLocal[c[1]] - (IF Len(c) = 1 \/ c[2] = "Z" THEN 0 ELSE IsoOffset[c[2]])

\* A parsed value with UTC offset zero (a datetime, or parse_ts's text).
CarriesUtc(v) ==
    IF v.t = "datetime" THEN v.v.tz = <<0>>
    ELSE v.t = "str" /\ v.v # <<>> /\ v.v[Len(v.v)] = "+00:00"

\* C12: parse_timestamp (and the validator's parse_ts) reads every ISO text
\* to a value with UTC offset zero, and two texts get the same value
\* exactly when they denote the same instant, whatever their offset
\* representation (trailing "Z", explicit offset, or none, read as UTC).
C12_SameInstantSameValue ==
    (probe.fn \in {"parse_timestamp", "parse_ts"} /\ probe.out # <<>>) =>
        /\ \A i \in 1..2 :
              /\ IsIsoText(probe.arg[i]) =>
                    probe.out[i].t = "ok" /\ ~IsNull(probe.out[i].v)
              /\ (probe.out[i].t = "ok" /\ ~IsNull(probe.out[i].v)) =>
                    CarriesUtc(probe.out[i].v)
        /\ (IsIsoText(probe.arg[1]) /\ IsIsoText(probe.arg[2])) =>
              ((probe.out[1] = probe.out[2])
                  <=> (InstantOf(probe.arg[1]) = InstantOf(probe.arg[2])))

\* "2024-01-01T00:00:00Z" and "2024-01-01T05:00:00+05:00": one instant.
C12_Witness ==
    /\ probe.fn = "parse_timestamp"
    /\ probe.arg = <<T0Z, T5plus5>>
    /\ probe.out # <<>>
    /\ probe.out[1] = probe.out[2]
    /\ probe.out[1] = [t |-> "ok", v |-> DateTime(0, <<0>>)]

----------------------------------------------------------------------------
\* The hyphen and underscore spellings of the refresh mode.
SpellingVariants ==
    {<<"r","e","f","r","e","s","h","-","2","4","h">>,
     <<"r","e","f","r","e","s","h","_","2","4","h">>}

\* The value as a lower-cased, trimmed word.
ModeWord(x) == Lower(Strip(PyStr(x)))

\* The mode a probe's i-th result carries: the normalizer's result, or the
\* mode column of the key import_pipeline_runs sends.
ProbedMode(i) ==
    IF probe.fn = "normalize_run_mode" \/ IsNull(probe.out[i])
    THEN probe.out[i]
    ELSE probe.out[i].v[2]

\* C13: run-mode normalization lower-cases, maps "refresh-24h" and
\* "refresh_24h" to "refresh24h" and returns a member of the mode set or
\* absent; the pipeline_runs key carries the canonical mode, so two lines
\* that differ only in the spelling of the mode have the same key.
C13_CanonicalRunMode ==
    (probe.fn \in {"normalize_run_mode", "pipeline_runs"} /\ probe.out # <<>>) =>
        /\ \A i \in 1..2 :
              LET x == probe.arg[i]
                  known == ~IsNull(x) /\ ModeWord(x) \in VALID_RUN_MODES
                  variant == ~IsNull(x) /\ ModeWord(x) \in SpellingVariants
              IN /\ known => ProbedMode(i) = JStr(ModeWord(x))
                 /\ variant => ProbedMode(i) = JStr(refresh24h)
                 /\ (~known /\ ~variant) => IsNull(probe.out[i])
        /\ (/\ probe.fn = "pipeline_runs"
            /\ \A i \in 1..2 : /\ ~IsNull(probe.arg[i])
                               /\ ModeWord(probe.arg[i]) \in SpellingVariants \cup {refresh24h})
              => (probe.out[1] = probe.out[2] /\ ~IsNull(probe.out[1]))

\* Two runs whose modes are "refresh-24h" and " REFRESH_24H ": one key,
\* with mode "refresh24h".
C13_Witness ==
    /\ probe.fn = "pipeline_runs"
    /\ probe.arg = <<JStr(<<"r","e","f","r","e","s","h","-","2","4","h">>),
                     JStr(<<" ","R","E","F","R","E","S","H","_","2","4","H"," ">>)>>
    /\ probe.out # <<>>
    /\ probe.out[1] = probe.out[2]
    /\ ~IsNull(probe.out[1])
    /\ probe.out[1].v[2] = JStr(refresh24h)

----------------------------------------------------------------------------
\* The value is absent, empty or a text that is no integer.
NotNumeric(x) ==
    IsNull(x) \/ IsEmptyStr(x) \/ (x.t = "str" /\ ~int_of_text(x.v).ok)

\* C14: parse_int never raises: for every value a decoded JSON row can
\* hold it returns an integer, and it returns the caller's default when
\* the value is absent, empty or not numeric text.
C14_ParseIntNeverRaises ==
    (probe.fn = "parse_int" /\ probe.out # <<>>) =>
        /\ probe.out[1].t = "ok"
        /\ probe.out[1].v \in Int
        /\ NotNumeric(probe.arg[1]) => probe.out[1].v = probe.arg[2].v

----------------------------------------------------------------------------
AnyAliasPresent(row, keys) == \E i \in 1..Len(keys) : keys[i] \in DOMAIN row

\* The first alias, in the field's alias order, whose key is in the row.
FirstPresent(row, keys) ==
    keys[CHOOSE i \in 1..Len(keys) :
            /\ keys[i] \in DOMAIN row
            /\ \A j \in 1..(i - 1) : keys[j] \notin DOMAIN row]

\* The value of the first alias present, None when no alias is present.
FirstAliasValue(row, keys) ==
    IF AnyAliasPresent(row, keys) THEN row[FirstPresent(row, keys)] ELSE Null

\* The canonical value is the first present alias's value, also where
\* import_posts stores a repost count ("reposts" before "retweets").
FirstAliasWins ==
    /\ probe.fn = "get_first" =>
          probe.out[1] = FirstAliasValue(probe.arg[1], probe.arg[2])
    /\ probe.fn = "import_posts" =>
          LET v == FirstAliasValue(probe.arg[1], <<"reposts", "retweets">>)
          IN probe.out[1] = JInt(IF IsNull(v) THEN 0 ELSE v.v)

AliasProbed == probe.fn \in {"get_first", "import_posts"} /\ probe.out # <<>>

\* C15 as stated: the canonical value is the value of the first alias
\* whose key is present, later aliases are not consulted, and the value is
\* absent only when no alias key is present.
C15_AbsentOnlyWithoutAlias ==
    AliasProbed =>
        /\ FirstAliasWins
        /\ (probe.fn = "get_first" /\ IsNull(probe.out[1])) =>
              ~AnyAliasPresent(probe.arg[1], probe.arg[2])

\* C15, amended: the canonical value is the value of the first alias whose
\* key is present and later aliases are not consulted, even when that
\* value is null; the value is absent when no alias key is present or when
\* the first alias present holds null.
C15_FirstPresentAliasWins ==
    AliasProbed =>
        /\ FirstAliasWins
        /\ probe.fn = "get_first" =>
              (IsNull(probe.out[1]) <=>
                  \/ ~AnyAliasPresent(probe.arg[1], probe.arg[2])
                  \/ IsNull(probe.arg[1][FirstPresent(probe.arg[1], probe.arg[2])]))

\* A post with both "reposts" (3) and "retweets" (7) is stored with 3.
C15_Witness ==
    /\ probe.fn = "import_posts"
    /\ probe.arg = <<[reposts |-> JInt(3), retweets |-> JInt(7)]>>
    /\ probe.out = <<JInt(3)>>

\* The rows of the snapshot table.
Snapshots == db[SnapshotTable]

\* At most one row per (status_id, snapshot_type, snapshot_at).
SnapshotKeysUnique(snaps) ==
    \A i, j \in DOMAIN snaps : SnapshotKey(snaps[i]) = SnapshotKey(snaps[j]) => i = j

\* A generator run that met a row it would have stored with other metrics.
ConflictingSnapshot(posts, snaps) ==
    \E kind \in {SnapshotKinds[n] : n \in DOMAIN SnapshotKinds} :
        \E r \in snapshot_rows(kind, posts, SourceLabel) :
            \E i \in DOMAIN snaps :
                SnapshotKey(snaps[i]) = SnapshotKey(r) /\ snaps[i] # r

\* C16: however generator runs and post imports interleave, every step
\* leaves post_metrics_snapshots with at most one row per (status_id,
\* snapshot_type, snapshot_at), and every row that was in the table before
\* the step is still there, unchanged.
C16_SnapshotsUniqueAndKept ==
    [][/\ SnapshotKeysUnique(Snapshots')
       /\ \A i \in DOMAIN Snapshots : i \in DOMAIN Snapshots' /\ Snapshots'[i] = Snapshots[i]]_vars

\* C16 witness: the generator has just run for at least the second time,
\* on a posts table that gives an existing snapshot other metrics, and the
\* table holds snapshots of both posts.
C16_Witness ==
    /\ run > 2
    /\ last.table = SnapshotTable
    /\ Len(Snapshots) >= 4
    /\ ConflictingSnapshot(db["posts"], Snapshots)

\* The snapshot table holds a row of the given type for post p at the
\* given instant.
HasSnapshot(p, kind, at) ==
    \E i \in DOMAIN Snapshots :
        /\ Snapshots[i].status_id = p.status_id
        /\ Snapshots[i].snapshot_type = kind
        /\ Snapshots[i].snapshot_at = at

\* Every post has its initial_capture and latest_observed snapshots, and
\* no refresh_24h snapshot stands at a null instant.
EveryPostHasSnapshots ==
    /\ \A k \in DOMAIN db["posts"] :
          LET p == db["posts"][k]
          IN /\ HasSnapshot(p, "initial_capture", p.discovered_at)
             /\ HasSnapshot(p, "latest_observed", p.last_seen_at)
             /\ HasSnapshot(p, "refresh_24h", p.refresh_24h_at) => ~IsNull(p.refresh_24h_at)
    /\ \A i \in DOMAIN Snapshots :
          Snapshots[i].snapshot_type = "refresh_24h" => ~IsNull(Snapshots[i].snapshot_at)

\* C17: when an importer run has ended, every post in the destination has
\* an initial_capture snapshot at its discovered_at and a latest_observed
\* snapshot at its last_seen_at, and refresh_24h snapshots exist only for
\* non-null refresh timestamps.
C17_EveryPostHasSnapshotsAfterRun ==
    pc \in {"done", "crashed"} => EveryPostHasSnapshots

\* The validator has printed its report and returned.
Reported == validator.pc = "exit" /\ validator.sqlite_exists

\* The report shows a table whose two counts differ.
CountsDiffer ==
    \E t \in DOMAIN local_tables : validator.counts[t].delta # JInt(0)

\* C18: the validator returns 2 when the row counts of some table differ,
\* when a spot-checked post is missing from the destination or when a
\* compared field of a spot-checked post differs, and 0 otherwise.
C18_ExitTwoOnAnyDisagreement ==
    Reported =>
        validator.exit = IF \/ CountsDiffer
                            \/ validator.spot_check.missing_in_pg # {}
                            \/ validator.spot_check.mismatches # {}
                         THEN 2 ELSE 0

\* The posts of the source that the destination lacks.
AbsentPosts == DOMAIN validator.sqlite.tweets \ DOMAIN validator.pg.posts

DefaultRun == Reported /\ validator.sample_size = DefaultSampleSize

\* C19 as stated: with one post absent from the destination, a run with
\* the default sample size returns non-zero and lists the post under
\* missing_in_pg, however many posts the source holds.
C19_AbsentPostAlwaysListed ==
    DefaultRun /\ Cardinality(AbsentPosts) = 1 =>
        /\ validator.exit # 0
        /\ AbsentPosts \subseteq validator.spot_check.missing_in_pg

\* C19, amended: with one post absent from the destination, a run with
\* the default sample size returns 2 and lists the post under missing_in_pg
\* exactly when the post is among the ids it checks, which it always is
\* when the source holds at most sample-size posts; when the draw leaves
\* the post out and finds nothing else, the run returns 0.
C19_AbsentPostListedWhenChecked ==
    DefaultRun /\ Cardinality(AbsentPosts) = 1 =>
        /\ Cardinality(DOMAIN validator.sqlite.tweets) <= DefaultSampleSize =>
              AbsentPosts \subseteq validator.ids
        /\ AbsentPosts \subseteq validator.ids =>
              validator.exit = 2 /\ validator.spot_check.missing_in_pg = AbsentPosts
        /\ ~(AbsentPosts \subseteq validator.ids) =>
              validator.exit = 0 /\ validator.spot_check.missing_in_pg = {}

\* C19 witness: a default run over a source of exactly sample-size posts
\* has listed the one absent post.
C19_Witness ==
    /\ DefaultRun
    /\ Cardinality(DOMAIN validator.sqlite.tweets) = DefaultSampleSize
    /\ Cardinality(AbsentPosts) = 1
    /\ validator.spot_check.missing_in_pg = AbsentPosts
    /\ validator.exit = 2

\* Nothing of a run shows: no table modified, no counters reported, no
\* line read, the reject log untouched.
NothingProcessed ==
    /\ db = EmptyDb
    /\ summary = NoSummary
    /\ history = <<>>
    /\ rejectLog = <<>>
    /\ idx = 0
    /\ last.outcome \in {"none", "abort"}

\* The run has aborted with a descriptive message.
AbortedWithMessage ==
    /\ pc \in {"fatal", "exit1"}
    /\ last.outcome = "abort"
    /\ last.reason \in {"Missing DB config", "error: input directory not found"}

NoCredentials == ~env.database_url /\ RequiredPgVars \ env.pg # {}

\* C20 as stated: with the DB config incomplete, the input directory
\* missing or any input file missing, the importer gets no further than
\* its abort: no table is modified and no counters are reported.
C20_MissingInputIsFatal ==
    NoCredentials \/ ~env.input_dir \/ env.missing # {} =>
        /\ NothingProcessed
        /\ pc = "start" \/ AbortedWithMessage

\* C20, amended: with the DB config incomplete or the input directory
\* missing the importer aborts with its message before anything is
\* processed; a missing input file alone is not fatal: the run goes on and
\* reports that table with all counters zero, the table untouched.
C20_FatalWithoutConfigOrDirectory ==
    /\ NoCredentials \/ ~env.input_dir =>
          /\ NothingProcessed
          /\ pc = "start" \/ AbortedWithMessage
    /\ ~NoCredentials /\ env.input_dir => pc \notin {"fatal", "exit1"}
    /\ \A t \in env.missing :
          /\ db[t] = EmptyTable
          /\ t \in DOMAIN summary => summary[t] = NewCounters

\* C20 witness: the run has aborted for want of DB config with a line
\* waiting in an input file.
C20_Witness ==
    /\ pc = "fatal"
    /\ last.reason = "Missing DB config"
    /\ \E t \in TableSet : Len(files[t]) > 0 /\ files[t][1].kind = "obj"
    /\ NothingProcessed

\* The tables a summary says rows were written to.
RowsWritten(printed) ==
    {t \in TableSet : printed[t].inserted + printed[t].updated > 0}

\* C21: every importer run that reaches the end of main() exits with
\* status 0, whatever was skipped or rejected on the way.
C21_CompletedRunExitsZero ==
    \A i \in DOMAIN history : history[i].status = "done" => history[i].exit = 0

\* C21 witness: a completed run whose input held rows, all of them
\* rejected: nothing inserted or updated, two entries in the reject log.
C21_Witness ==
    /\ pc = "done"
    /\ history[Len(history)].status = "done"
    /\ history[Len(history)].exit = 0
    /\ \E t \in TableSet : summary[t].received > 0
    /\ RowsWritten(summary) = {}
    /\ \A t \in TableSet : summary[t].skipped + summary[t].errors >= summary[t].received
    /\ Len(rejectLog) >= 2

\* The lines of table t's file that the importer rejects, as (table, line
\* number, raw row), in file order from line i on.
RECURSIVE RejectsOf(_, _)
RejectsOf(t, i) ==
    IF i > Len(files[t]) THEN <<>>
    ELSE LET line == files[t][i]
         IN (IF line.kind \in {"obj", "scalar"} /\ ~Accepted(t, line)
             THEN <<[table |-> t, index |-> i, row |-> line.row]>>
             ELSE <<>>) \o RejectsOf(t, i + 1)

\* The rejects of a whole run, table after table in main()'s order.
RECURSIVE RejectsFrom(_)
RejectsFrom(n) ==
    IF n > Len(Tables) THEN <<>> ELSE RejectsOf(Tables[n], 1) \o RejectsFrom(n + 1)

\* The reject log without the reasons.
LogEntries(log) ==
    [i \in 1..Len(log) |-> [table |-> log[i].table, index |-> log[i].index, row |-> log[i].row]]

IsPrefix(a, b) == Len(a) <= Len(b) /\ \A i \in 1..Len(a) : b[i] = a[i]

\* C22: when a run completes, the reject log holds exactly the entries of
\* that run's rejected rows, table after table and line after line, and
\* nothing of an earlier run; while the importers run, the log only grows
\* at its end.
C22_RejectLogIsThisRunsRejects ==
    [][/\ pc' = "done" => LogEntries(rejectLog') = RejectsFrom(1)
       /\ pc \in TableSet => IsPrefix(rejectLog, rejectLog')]_vars

\* C22 witness: a second run has completed and its log holds two entries,
\* of two tables, as the first run's did.
C22_Witness ==
    /\ run = 2
    /\ pc = "done"
    /\ Len(history) = 2
    /\ Len(rejectLog) = 2
    /\ TableRank(rejectLog[1].table) < TableRank(rejectLog[2].table)

\* The step upserts the row of its line under key k of table t.
Upserts(t, k) ==
    /\ RowStep(t)
    /\ Accepted(t, CurLine(t))
    /\ IncomingKey(t) = k
    /\ last'.outcome \in {"inserted", "updated"}

\* C23: no step of a run takes an upserted row back: every row in a table
\* stays there, with its values, unless the step upserts that very key
\* again; a step that rejects its row or aborts the run leaves every table
\* as it was.
C23_UpsertsStayInPlace ==
    [][/\ \A t \in TableSet : \A k \in DOMAIN db[t] :
             /\ k \in DOMAIN db'[t]
             /\ db'[t][k] # db[t][k] => Upserts(t, k)
       /\ (last' # last /\ last'.outcome \in {"skipped", "error", "abort", "blank"})
             => db' = db]_vars

\* C23 witness: the run was aborted at line 2 of a file, and the row
\* upserted from line 1 of that file is in the destination.
C23_Witness ==
    /\ pc = "crashed"
    /\ last.outcome = "abort"
    /\ last.index = 2
    /\ Accepted(last.table, files[last.table][1])
    /\ KeyOf(last.table, row_values(last.table, files[last.table][1]).values)
          \in DOMAIN db[last.table]

\* The jobs the script has disabled or booted out and not resumed.
JobsDown == purge.disabled \cup purge.booted_out

\* C24: when the purge script exits, resume_jobs has run if the script
\* disabled or booted out any job, whichever stage raised; with
\* --no-pause-jobs neither pause_jobs nor resume_jobs has run.
C24_ResumeAfterAnyPause ==
    purge.pc = "exit" =>
        /\ purge.calls > 0 => purge.resume_jobs /\ JobsDown = {}
        /\ purge.args.no_pause_jobs => ~purge.pause_jobs /\ ~purge.resume_jobs

\* The additions an application appends: those the list does not hold,
\* each once, in the order of their first occurrence.
RECURSIVE FirstOccurrences(_, _)
FirstOccurrences(seen, additions) ==
    IF additions = <<>> THEN <<>>
    ELSE IF Head(additions) \in seen THEN FirstOccurrences(seen, Tail(additions))
    ELSE <<Head(additions)>> \o FirstOccurrences(seen \cup {Head(additions)}, Tail(additions))

OmitProbed(fns) == probe.fn \in fns /\ Len(probe.out) = 2

\* C25: merged_handles keeps the existing handles where they are and
\* appends the new additions once each in order of first occurrence; a
\* second application of merged_handles, or of a file update with the same
\* handles, succeeds, yields the same handles, reports changed = false and
\* leaves the file as the first application left it.
C25_MergeKeepsOrderAndIsIdempotent ==
    /\ OmitProbed({"merged_handles"}) =>
          /\ probe.out[1].val.file =
                probe.arg[1] \o FirstOccurrences(Range(probe.arg[1]), probe.arg[2])
          /\ probe.out[2] = probe.out[1]
    /\ OmitProbed({"update_local_omit_python", "update_server_omit_array"}) =>
          /\ probe.out[1].ok /\ probe.out[2].ok
          /\ probe.out[2].val.handles = probe.out[1].val.handles
          /\ ~probe.out[2].val.changed
          /\ probe.out[2].val.file = probe.out[1].val.file

\* The importer ran to completion on the exported files and rejected no
\* posts row, and the validator has returned.
MigratedCleanly ==
    /\ validator.pc = "exit"
    /\ history # <<>>
    /\ history[1].status = "done"
    /\ history[1].summary["posts"].skipped = 0
    /\ history[1].summary["posts"].errors = 0

\* C26: after an export and an import into an empty destination that
\* rejected no posts row, the spot check of any sample reports no missing
\* row and no field mismatch, and the validator exits 0.
C26_CleanMigrationPassesSpotCheck ==
    MigratedCleanly =>
        /\ validator.spot_check.missing_in_pg = {}
        /\ validator.spot_check.mismatches = {}
        /\ validator.exit = 0

====
